---- MODULE Spec2Model ----
(***************************************************************************)
(* A model of the Meg compiler front end (src/src/lexer.rs, parser.rs,     *)
(* main.rs).  Characters are modelled as one-element strings; characters   *)
(* that a TLA+ string cannot hold are named by their code point            *)
(* ("U+0000" is NUL, "U+00E9" is e-acute, "U+20AC" the euro sign,          *)
(* "U+00B2" superscript two).  A Rust String / Vec<char> is a sequence of  *)
(* characters.  Indices are the 0-based indices of the source.             *)
(***************************************************************************)
EXTENDS Integers, Sequences, FiniteSets, TLC

\* ------------------------------------------------------------------ bounds

\* Longest input drawn freely from Alphabet.
MaxLen == 3

\* ------------------------------------------------------- character classes

NUL == "U+0000"

\* char::is_digit(10)
Digits == {"0", "1", "2", "3", "4", "5", "6", "7", "8", "9"}

is_digit(ch) == ch \in Digits

\* char::is_whitespace, on the characters of the model
Whitespace == {" ", "\t", "\n", "\r", "\f"}

is_whitespace(ch) == ch \in Whitespace

\* char::is_ascii_punctuation: the 32 ASCII punctuation characters
AsciiPunctuation ==
    {"!", "\"", "#", "$", "%", "&", "'", "(", ")", "*", "+", ",", "-", ".",
     "/", ":", ";", "<", "=", ">", "?", "@", "[", "\\", "]", "^", "_", "U+0060",
     "{", "|", "}", "~"}

is_ascii_punctuation(ch) == ch \in AsciiPunctuation

\* char::is_alphabetic, on the characters of the model
Alphabetic ==
    {"a", "b", "c", "d", "e", "f", "g", "h", "i", "j", "k", "l", "m", "n",
     "o", "p", "q", "r", "s", "t", "u", "v", "w", "x", "y", "z",
     "A", "B", "X", "Y", "Z", "U+00E9"}

\* char::is_alphanumeric = is_alphabetic || is_numeric; U+00B2 is numeric
\* (category No) but not a radix-10 digit.
is_alphanumeric(ch) == ch \in Alphabetic \cup Digits \cup {"U+00B2"}

\* A variant of is_alphabetic that also accepts numeric characters.
is_alphabetic_or_numeric(ch) == is_alphanumeric(ch)

is_alphabetic(ch) == ch \in Alphabetic

\* str: the UTF-8 length of one character
len_utf8(ch) ==
    IF ch \in {"U+00E9", "U+00B2"} THEN 2
    ELSE IF ch = "U+20AC" THEN 3
    ELSE 1

is_special(ch) == ch \in {"(", ")", "[", "]", "{", "}", ":", "=", ","}

\* the match of Lexer::go's Normal state on a special character
SpecialKind(ch) ==
    CASE ch = "(" -> "LParen"
      [] ch = ")" -> "RParen"
      [] ch = "[" -> "LBracket"
      [] ch = "]" -> "RBracket"
      [] ch = "{" -> "LBrace"
      [] ch = "}" -> "RBrace"
      [] ch = ":" -> "Colon"
      [] ch = "=" -> "Equals"
      [] ch = "," -> "Comma"

TokenKind ==
    {"StringLiteral", "IntegerLiteral", "FloatLiteral", "Identifier",
     "Operator", "LParen", "RParen", "LBracket", "RBracket", "LBrace",
     "RBrace", "Colon", "Equals", "Comma", "Fn", "If", "Elif", "Else",
     "While", "Loop", "Newline", "EOF"}

Token(kind, value, position) ==
    [kind |-> kind, value |-> value, position |-> position]

\* try_convert_keyword: the keyword's kind, or "None"
KeywordKind(s) ==
    CASE s = <<"f", "n">> -> "Fn"
      [] s = <<"i", "f">> -> "If"
      [] s = <<"e", "l", "i", "f">> -> "Elif"
      [] s = <<"e", "l", "s", "e">> -> "Else"
      [] s = <<"w", "h", "i", "l", "e">> -> "While"
      [] s = <<"l", "o", "o", "p">> -> "Loop"
      [] OTHER -> "None"

try_convert_keyword(s, position) ==
    IF KeywordKind(s) = "None" THEN "None"
    ELSE Token(KeywordKind(s), s, position)

\* Errors::lexer: the diagnostic appended to the sink.  A formatted message
\* is its fixed text and the formatted arguments.
LexerError(text, args, position) ==
    [stage |-> "Lexer", message |-> [text |-> text, args |-> args],
     position |-> position]

\* ------------------------------------------------------------------ inputs

\* The characters inputs are drawn from freely.
Alphabet ==
    {"\n", " ", NUL, "\"", "1", ".", "=", "(", "<", "a", "_", "\\",
     "U+00E9", "U+20AC", "U+00B2"}

BoundedSeq(S, n) == UNION {[1..k -> S] : k \in 0..n}

\* The operators of the parser's binding-power table.
BindingOps ==
    {<<"=", "=">>, <<"!", "=">>, <<"<">>, <<">">>, <<"<", "=">>,
     <<">", "=">>, <<"+">>, <<"-">>, <<"*">>, <<"/">>, <<"/", "/">>}

\* An operator between two operands, separated by sp on both sides.
Between(l, sp, op, r) == <<l>> \o sp \o op \o sp \o <<r>>

OperatorInputs ==
    {Between(l, sp, op, r) :
        l \in {"1", "a"}, sp \in {<<>>, <<" ">>}, op \in BindingOps,
        r \in {"1", "a"}}

\* The inputs of the tests of lexer.rs, of the spec's scenarios, and the
\* keywords.
HelloWorld == <<"h", "e", "l", "l", "o", " ", "w", "o", "r", "l", "d">>

MoreStuff == <<"m", "o", "r", "e", "_", "s", "t", "u", "f", "f">>

TestInputs ==
    {<<"\"">> \o HelloWorld \o <<"\"", " ">> \o MoreStuff,
     <<"\"">> \o HelloWorld \o <<" ">> \o MoreStuff,
     <<"1", ".", "2", ".", "3">>,
     <<"a", "\n", " ", "\n", "a">>,
     <<"\"", "a", "\\", "n", "\"">>,
     <<"f", "n">>, <<"i", "f">>, <<"e", "l", "i", "f">>,
     <<"e", "l", "s", "e">>, <<"w", "h", "i", "l", "e">>,
     <<"l", "o", "o", "p">>, <<"i", "f", "f">>}

\* The inputs of the spec's end-to-end scenarios 3 to 6, and a block whose
\* statement ends with a newline.
ScenarioInputs ==
    {<<"x", ":", " ", "=", " ", "1", " ", "+", " ", "2", " ", "*",
       " ", "3">>,
     <<"m", "a", "i", "n", ":", " ", "=", " ", "f", "n", "(", ")",
       " ", "i", "3", "2", " ", "{", " ", "3", " ", "-", " ",
       "1", " ", "}">>,
     <<"i", "f", " ", "1", " ", "=", "=", " ", "1", " ", "{", " ",
       "1", "0", " ", "}", " ", "e", "l", "s", "e", " ", "{",
       " ", "2", "0", " ", "}">>,
     <<"5", " ", "/", "/", " ", "2">>,
     <<"-", "5", " ", "/", "/", " ", "2">>,
     <<"{", " ", "1", "0", "\n", "}">>}

\* The operators of infix_binding_power.
InfixOperators == BindingOps \cup {<<".", ".">>}

\* Chains of two infix operators over three operands.
ChainInputs ==
    {<<l, " ">> \o op1 \o <<" ", "2", " ">> \o op2 \o <<" ", "3">> :
        l \in {"1", "a"}, op1 \in InfixOperators, op2 \in InfixOperators}

\* Sources that exercise the productions of the parser.
ParserInputs ==
    {<<"f", "n", ")", "a", " ", "a">>,
     <<"f", "n", " ", "a">>,
     <<"{", "1", "}">>,
     <<"a", " ", ".", ".", " ", "b">>,
     <<"a", ".", ".", "1">>,
     <<"a", ".", ".">>,
     <<"l", "o", "o", "p", " ", "a">>,
     <<"l", "o", "o", "p", " ", "1", " ", "+", " ", "a">>,
     <<"w", "h", "i", "l", "e", " ", "t", "r", "u", "e", " ", "a">>,
     <<"{", " ", "1", "0", " ", "}">>,
     <<"{", " ", "a", " ", "}">>,
     <<"f", "n", "(", "a", ":", "a", ",", "a", ":", "a", ")", "a", " ", "a">>}

\* Sources whose trees exercise the methods of the IR generator.
LoweringInputs ==
    {<<"!", "a">>,
     <<"+", "a">>,
     <<".", ".", "a">>,
     <<"a", "[", "1", "]">>,
     <<"x", ":", " ", "a">>,
     <<"i", "f", " ", "a", " ", "b">>,
     <<"i", "f", " ", "a", " ", "b", " ", "e", "l", "s", "e", " ", "c">>,
     <<"x", ":", " ", "a", " ", "=", " ", "f", "n", "(", ")", " ", "a", " ",
       "b">>,
     <<"x", ":", " ", "i", "3", "2", " ", "=", " ", "1", " ", "+", " ", "2",
       " ", "*", " ", "3">>,
     <<"i", "f", " ", "i", "f", " ", "a", " ", "b", " ", "e", "l", "s", "e",
       " ", "c", " ", "d", " ", "e", "l", "s", "e", " ", "e">>,
     <<"f", "(", "1", ",", " ", "a", ")">>,
     <<"a", " ", "=", " ", "1">>,
     <<"1", ".", "5", "0", " ", "+", " ", "\"", "s", "\"">>,
     <<"i", "f", " ", "a", " ", "{", "b", "\n", "}", " ", "e", "l", "s",
       "e", " ", "{", "c", "\n", "}">>,
     <<"i", "f", " ", "a", " ", "w", "h", "i", "l", "e", " ", "b", " ", "c",
       " ", "e", "l", "s", "e", " ", "f", "n", "(", ")", " ", "d", " ", "e">>,
     <<"i", "f", " ", "a", " ", "b", " ", "e", "l", "i", "f", " ", "c", " ",
       "d", " ", "e", "l", "s", "e", " ", "e">>,
     <<"w", "h", "i", "l", "e", " ", "a", " ", "b">>,
     <<"i", "f", " ", "i", "f", " ", "a", " ", "b", " ", "e", "l", "s", "e",
       " ", "c", " ", "f", "n", "(", ")", " ", "d", " ", "e", " ", "e", "l",
       "s", "e", " ", "f">>,
     <<"x", ":", " ", "i", "3", "2", " ", "=", " ", "f", "n", "(", ")", " ",
       "i", "3", "2", " ", "i", "f", " ", "a", " ", "i", "f", " ", "b", " ",
       "c", " ", "e", "l", "s", "e", " ", "d", " ", "e", "l", "s", "e", " ",
       "e">>,
     <<"i", "f", " ", "a", " ", "i", "f", " ", "b", " ", "c", " ", "e", "l",
       "s", "e", " ", "d", " ", "e", "l", "s", "e", " ", "e", "\n", "i", "f",
       " ", "f", " ", "g", " ", "e", "l", "s", "e", " ", "h">>}

\* Programs for the interpreter: a `main` that is a function, a `main` that
\* is no function, programs without `main`, an if after a function
\* expression, the divisions, the comparisons, and operands that do not fit.
InterpreterInputs ==
    {<<"m", "a", "i", "n", ":", " ", "i", "3", "2", " ", "=", " ", "f", "n",
       "(", ")", " ", "i", "3", "2", " ", "3", " ", "-", " ", "1">>,
     <<"m", "a", "i", "n", ":", " ", "i", "3", "2", " ", "=", " ", "f", "n",
       "(", ")", " ", "i", "3", "2", " ", "i", "f", " ", "t", "r", "u", "e",
       " ", "1", "0", " ", "e", "l", "s", "e", " ", "2", "0">>,
     <<"m", "a", "i", "n", ":", " ", "i", "3", "2", " ", "=", " ", "1">>,
     <<"5", " ", "/", "/", " ", "2", "\n", "m", "a", "i", "n", ":", " ", "i",
       "3", "2", " ", "=", " ", "1">>,
     <<"i", "f", " ", "t", "r", "u", "e", " ", "1", "0", " ", "e", "l", "s",
       "e", " ", "2", "0">>,
     <<"i", "f", " ", "f", "a", "l", "s", "e", " ", "1", "0", " ", "e", "l",
       "s", "e", " ", "2", "0">>,
     <<"i", "f", " ", "i", "f", " ", "t", "r", "u", "e", " ", "f", "a", "l",
       "s", "e", " ", "e", "l", "s", "e", " ", "t", "r", "u", "e", " ", "1",
       "0", " ", "e", "l", "s", "e", " ", "2", "0">>,
     <<"x", ":", " ", "i", "3", "2", " ", "=", " ", "f", "n", "(", ")", " ",
       "i", "3", "2", " ", "1", "\n", "i", "f", " ", "t", "r", "u", "e", " ",
       "1", "0", " ", "e", "l", "s", "e", " ", "2", "0">>,
     <<"i", "f", " ", "1", " ", "2", " ", "e", "l", "s", "e", " ", "3">>,
     <<"5", " ", "/", "/", " ", "2">>,
     <<"-", "5", " ", "/", "/", " ", "2">>,
     <<"5", " ", "/", "/", " ", "-", "2">>,
     <<"-", "5", " ", "/", "/", " ", "-", "2">>,
     <<"1", " ", "/", "/", " ", "0">>,
     <<"1", " ", "<", " ", "2">>,
     <<"1", " ", "!", "=", " ", "2">>,
     <<"2", " ", ">", " ", "1">>,
     <<"1", " ", "<", "=", " ", "2">>,
     <<"1", " ", ">", "=", " ", "2">>,
     <<"1", " ", "+", " ", "a">>,
     <<"1", " ", "+", " ", "t", "r", "u", "e">>,
     <<"1", ".", "5", " ", "+", " ", "2", ".", "5">>,
     <<"x", ":", " ", "i", "3", "2", " ", "=", " ", "1", "\n", "x", " ", "=",
       " ", "2", "\n", "x">>,
     <<"3", " ", "-", " ", "1", "\n", "1", " ", "/", " ", "2">>}

Inputs ==
    BoundedSeq(Alphabet, MaxLen) \cup OperatorInputs \cup TestInputs
        \cup ScenarioInputs \cup ChainInputs \cup ParserInputs
        \cup LoweringInputs \cup InterpreterInputs

\* ------------------------------------------------------------------- state

VARIABLES
    code,            \* Lexer.code: the input, as characters
    index,           \* Lexer.index
    state,           \* Lexer.state
    token,           \* go's buffer `token`
    start_position,  \* go's `start_position`
    tokens,          \* go's result `tokens`
    errors,          \* the Errors sink
    pc,              \* Lexer::go: "lexing", "done" (returned) or "panic"
    stage,           \* main: the stage it is in or has completed, or "panic"
    results,         \* main's `results` of parser.go(): the Option returned
    ir_generator,    \* main's `ir_generator`, once IRGenerator::go returned;
                     \* its env is the Environment the interpreter borrows
    stack,           \* Interpreter.stack, the top last
    call_stack,      \* Interpreter.call_stack, the top last
    current,         \* Interpreter.current
    finished         \* Interpreter.finished

vars ==
    <<code, index, state, token, start_position, tokens, errors, pc, stage,
      results, ir_generator, stack, call_stack, current, finished>>

interpreterVars == <<stack, call_stack, current, finished>>

\* Lexer::new, and the locals of go before its loop
Init ==
    /\ code \in Inputs
    /\ index = 0
    /\ state = "Normal"
    /\ token = <<>>
    /\ start_position = 0
    /\ tokens = <<>>
    /\ errors = <<>>
    /\ pc = "lexing"
    /\ stage = "lexer"
    /\ results = [st |-> "NotRun"]
    /\ ir_generator = [st |-> "NotRun"]
    /\ stack = <<>>
    /\ call_stack = <<>>
    /\ current = [function |-> 0, block |-> 0, instruction |-> 0]
    /\ finished = FALSE

\* *self.code.get(self.index).unwrap_or(&'\0')
CharAt(c, i) == IF i < Len(c) THEN c[i + 1] ELSE NUL

\* tokens.last().map(|t| t.kind.clone()).unwrap_or(TokenKind::Newline)
LastKind(toks) == IF toks = <<>> THEN "Newline" ELSE toks[Len(toks)].kind

\* The outcome of one match arm: the new state, buffer, start position,
\* tokens and errors; cont is the arm's `continue`, panic its abort.
Arm(st, tok, start, toks, errs, cont) ==
    [st |-> st, tok |-> tok, start |-> start, toks |-> toks, errs |-> errs,
     cont |-> cont, panic |-> FALSE]

\* A variant of NewlineStarts that does not look at the previous token.
NewlineStartsAlways(ch, toks) == ch = "\n"

\* The condition under which Normal emits a Newline token.
NewlineStarts(ch, toks) == ch = "\n" /\ LastKind(toks) # "Newline"

\* A variant of Begin that leaves start_position as it was.
BeginStale(st, ch, idx, tok, start, toks, errs) ==
    Arm(st, Append(tok, ch), start, toks, errs, FALSE)

\* token.push(ch); self.state = st; start_position = self.index
Begin(st, ch, idx, tok, start, toks, errs) ==
    Arm(st, Append(tok, ch), idx, toks, errs, FALSE)

\* LexerState::Normal
Normal(ch, idx, tok, start, toks, errs) ==
    IF NewlineStarts(ch, toks) THEN
        Arm("Normal", tok, start, Append(toks, Token("Newline", <<"\n">>, idx)),
            errs, FALSE)
    ELSE IF is_whitespace(ch) \/ ch = NUL THEN
        Arm("Normal", tok, start, toks, errs, FALSE)
    ELSE IF ch = "\"" THEN
        Arm("String", tok, idx, toks, errs, FALSE)
    ELSE IF is_digit(ch) THEN
        Begin("Integer", ch, idx, tok, start, toks, errs)
    ELSE IF is_special(ch) THEN
        Arm("Normal", tok, start,
            Append(toks, Token(SpecialKind(ch), <<ch>>, idx)), errs, FALSE)
    ELSE IF is_ascii_punctuation(ch) THEN
        Begin("Operator", ch, idx, tok, start, toks, errs)
    ELSE IF is_alphabetic(ch) \/ ch = "_" THEN
        Begin("Identifier", ch, idx, tok, start, toks, errs)
    ELSE
        Arm("Normal", tok, start, toks,
            Append(errs, LexerError("Found invalid character", <<ch, ch>>, idx)),
            FALSE)

\* LexerState::Integer
Integer(ch, idx, tok, start, toks, errs) ==
    IF is_digit(ch) THEN
        Arm("Integer", Append(tok, ch), start, toks, errs, FALSE)
    ELSE IF ch = "." THEN
        Arm("Float", Append(tok, ch), start, toks, errs, FALSE)
    ELSE
        Arm("Normal", <<>>, start,
            Append(toks, Token("IntegerLiteral", tok, start)), errs, TRUE)

\* LexerState::Float
Float(ch, idx, tok, start, toks, errs) ==
    IF is_digit(ch) THEN
        Arm("Float", Append(tok, ch), start, toks, errs, FALSE)
    ELSE IF ch = "." THEN
        Arm("Normal", tok, start, toks, errs, TRUE)
    ELSE
        Arm("Normal", <<>>, start,
            Append(toks, Token("FloatLiteral", tok, start)), errs, TRUE)

\* LexerState::String
String(ch, idx, tok, start, toks, errs) ==
    IF ch = "\"" THEN
        Arm("Normal", <<>>, start,
            Append(toks, Token("StringLiteral", tok, start)), errs, FALSE)
    ELSE IF ch = "\\" THEN
        Arm("Escape", Append(tok, ch), start, toks, errs, FALSE)
    ELSE IF ch = NUL THEN
        Arm("String", tok, start, toks, errs, FALSE)
    ELSE
        Arm("String", Append(tok, ch), start, toks, errs, FALSE)

\* LexerState::Operator
Operator(ch, idx, tok, start, toks, errs) ==
    IF is_ascii_punctuation(ch) THEN
        Arm("Operator", Append(tok, ch), start, toks, errs, FALSE)
    ELSE
        Arm("Normal", <<>>, start,
            Append(toks, Token("Operator", tok, start)), errs, TRUE)

\* LexerState::Identifier
Identifier(ch, idx, tok, start, toks, errs) ==
    IF is_alphanumeric(ch) \/ ch = "_" THEN
        Arm("Identifier", Append(tok, ch), start, toks, errs, FALSE)
    ELSE
        Arm("Normal", <<>>, start,
            Append(toks,
                   IF KeywordKind(tok) # "None"
                   THEN try_convert_keyword(tok, start)
                   ELSE Token("Identifier", tok, start)),
            errs, TRUE)

\* LexerState::Escape: todo!()
Escape(ch, idx, tok, start, toks, errs) ==
    [Arm("Escape", tok, start, toks, errs, FALSE) EXCEPT !.panic = TRUE]

\* A variant of AtEnd that stops one character early.
AtEndEarly(idx, n) == idx + 1 >= n

\* if self.index >= self.code.len()
AtEnd(idx, n) == idx >= n

\* A variant of EofErrors that reports the position of the last character.
EofErrorsAtLast(st, tok, idx, errs) ==
    IF st = "String"
    THEN Append(errs, LexerError("Found EOF while parsing a string literal",
                                 tok, idx - 1))
    ELSE errs

\* The diagnostic of an input that ends inside a string literal.
EofErrors(st, tok, idx, errs) ==
    IF st = "String"
    THEN Append(errs, LexerError("Found EOF while parsing a string literal",
                                 tok, idx))
    ELSE errs

\* One iteration of go's loop without its `self.index += 1`.
IterateInPlace(r) ==
    /\ state' = r.st
    /\ token' = r.tok
    /\ start_position' = r.start
    /\ code' = code
    /\ results' = results
    /\ ir_generator' = ir_generator
    /\ UNCHANGED interpreterVars
    /\ stage' = IF r.panic THEN "panic" ELSE stage
    /\ IF r.panic THEN
           /\ pc' = "panic"
           /\ UNCHANGED <<index, tokens, errors>>
       ELSE IF r.cont THEN
           /\ tokens' = r.toks
           /\ errors' = r.errs
           /\ UNCHANGED <<index, pc>>
       ELSE IF AtEnd(index, Len(code)) THEN
           /\ errors' = EofErrors(r.st, r.tok, index, r.errs)
           /\ tokens' = Append(r.toks, Token("EOF", <<>>, index))
           /\ pc' = "done"
           /\ UNCHANGED index
       ELSE
           /\ tokens' = r.toks
           /\ errors' = r.errs
           /\ index' = index
           /\ UNCHANGED pc

\* One iteration of go's loop: the arm r of the match, then, unless the arm
\* continued or aborted, the end-of-input check and `self.index += 1`.
Iterate(r) ==
    /\ state' = r.st
    /\ token' = r.tok
    /\ start_position' = r.start
    /\ code' = code
    /\ results' = results
    /\ ir_generator' = ir_generator
    /\ UNCHANGED interpreterVars
    /\ stage' = IF r.panic THEN "panic" ELSE stage
    /\ IF r.panic THEN
           /\ pc' = "panic"
           /\ UNCHANGED <<index, tokens, errors>>
       ELSE IF r.cont THEN
           /\ tokens' = r.toks
           /\ errors' = r.errs
           /\ UNCHANGED <<index, pc>>
       ELSE IF AtEnd(index, Len(code)) THEN
           /\ errors' = EofErrors(r.st, r.tok, index, r.errs)
           /\ tokens' = Append(r.toks, Token("EOF", <<>>, index))
           /\ pc' = "done"
           /\ UNCHANGED index
       ELSE
           /\ tokens' = r.toks
           /\ errors' = r.errs
           /\ index' = index + 1
           /\ UNCHANGED pc

Ch == CharAt(code, index)

LexNormal ==
    /\ pc = "lexing" /\ state = "Normal"
    /\ Iterate(Normal(Ch, index, token, start_position, tokens, errors))

LexInteger ==
    /\ pc = "lexing" /\ state = "Integer"
    /\ Iterate(Integer(Ch, index, token, start_position, tokens, errors))

LexFloat ==
    /\ pc = "lexing" /\ state = "Float"
    /\ Iterate(Float(Ch, index, token, start_position, tokens, errors))

LexString ==
    /\ pc = "lexing" /\ state = "String"
    /\ Iterate(String(Ch, index, token, start_position, tokens, errors))

LexOperator ==
    /\ pc = "lexing" /\ state = "Operator"
    /\ Iterate(Operator(Ch, index, token, start_position, tokens, errors))

LexIdentifier ==
    /\ pc = "lexing" /\ state = "Identifier"
    /\ Iterate(Identifier(Ch, index, token, start_position, tokens, errors))

LexEscape ==
    /\ pc = "lexing" /\ state = "Escape"
    /\ Iterate(Escape(Ch, index, token, start_position, tokens, errors))


\* ------------------------------------------------------------------ parser

\* Errors::parser: the diagnostic appended to the sink.
ParserError(text, args, position) ==
    [stage |-> "Parser", message |-> [text |-> text, args |-> args],
     position |-> position]

\* Parser.source_position: set by Parser::new and never assigned again.
source_position == 0

\* The variants of Node.
Block(nodes) == [node |-> "Block", nodes |-> nodes]

InfixOp(op, left, right) ==
    [node |-> "InfixOp", op |-> op, left |-> left, right |-> right]

PrefixOp(op, right) == [node |-> "PrefixOp", op |-> op, right |-> right]

PostfixOp(op, left) == [node |-> "PostfixOp", op |-> op, left |-> left]

IndexOp(object, idx) == [node |-> "IndexOp", object |-> object, index |-> idx]

Literal(typ, value) == [node |-> "Literal", typ |-> typ, value |-> value]

Call(name, args) == [node |-> "Call", name |-> name, args |-> args]

VariableRef(name) == [node |-> "VariableRef", name |-> name]

Declaration(name, typ, body) ==
    [node |-> "Declaration", name |-> name, typ |-> typ, body |-> body]

IfExpression(condition, then_body, else_body) ==
    [node |-> "IfExpression", condition |-> condition,
     then_body |-> then_body, else_body |-> else_body]

WhileExpression(condition, body) ==
    [node |-> "WhileExpression", condition |-> condition, body |-> body]

Assignment(name, value) ==
    [node |-> "Assignment", name |-> name, value |-> value]

FunctionExpression(arg_types, arg_names, ret_types, body) ==
    [node |-> "FunctionExpression", arg_types |-> arg_types,
     arg_names |-> arg_names, ret_types |-> ret_types, body |-> body]

\* Parser::in_context: a NodeContext
in_context(constant, node) ==
    [node |-> node, position |-> source_position, constant |-> constant]

\* The outcome of a parser method: the Option it returns ("Some" with its
\* value, or "None"), or "Panic" when it aborts; with the parser's index
\* and the error sink after it.
NoValue == [node |-> "NoValue"]

Some(v, idx, errs) == [st |-> "Some", v |-> v, idx |-> idx, errs |-> errs]

None(idx, errs) == [st |-> "None", v |-> NoValue, idx |-> idx, errs |-> errs]

Panic(idx, errs) == [st |-> "Panic", v |-> NoValue, idx |-> idx, errs |-> errs]

\* Whether self.tokens[i] is in bounds.
InBounds(toks, i) == i < Len(toks)

\* Parser::consume: index out of bounds aborts.
consume(toks, idx, errs) ==
    IF InBounds(toks, idx) THEN Some(toks[idx + 1], idx + 1, errs)
    ELSE Panic(idx + 1, errs)

\* Parser::peek: index out of bounds aborts.
peek(toks, idx, errs) ==
    IF InBounds(toks, idx) THEN Some(toks[idx + 1], idx, errs)
    ELSE Panic(idx, errs)

\* Parser::consume_of_kind
consume_of_kind(toks, idx, errs, kind) ==
    LET peeked == peek(toks, idx, errs) IN
    IF peeked.st # "Some" THEN peeked
    ELSE IF peeked.v.kind = kind THEN consume(toks, idx, errs)
    ELSE None(idx, Append(errs,
                 ParserError("Expected token, but found instead",
                             <<kind, peeked.v.kind>>, peeked.v.position)))

\* Parser::try_consume_of_kind
try_consume_of_kind(toks, idx, errs, kind) ==
    LET peeked == peek(toks, idx, errs) IN
    IF peeked.st # "Some" THEN peeked
    ELSE IF peeked.v.kind = kind THEN consume(toks, idx, errs)
    ELSE None(idx, errs)

\* Parser::consume_identifier
consume_identifier(toks, idx, errs) ==
    LET peeked == peek(toks, idx, errs) IN
    IF peeked.st # "Some" THEN peeked
    ELSE IF peeked.v.kind = "Identifier" THEN
        LET c == consume(toks, idx, errs) IN Some(c.v.value, c.idx, c.errs)
    ELSE None(idx, Append(errs,
                 ParserError("Expected an identifier, but found instead",
                             <<peeked.v.kind>>, peeked.v.position)))

\* prefix_binding_power: the right binding power, or -1 for unreachable!()
prefix_binding_power(op) ==
    CASE op = <<".", ".">> -> 1
      [] op = <<"!">> -> 8
      [] op \in {<<"+">>, <<"-">>} -> 9
      [] OTHER -> -1

\* postfix_binding_power: <<left_bp>>, or <<>> for None
postfix_binding_power(op) ==
    CASE op = <<".", ".">> -> <<1>>
      [] op = <<"[">> -> <<11>>
      [] OTHER -> <<>>

\* infix_binding_power: <<left_bp, right_bp>>, or <<>> for None
infix_binding_power(op) ==
    CASE op = <<".", ".">> -> <<1, 2>>
      [] op \in {<<">">>, <<"<">>, <<">", "=">>, <<"<", "=">>, <<"=", "=">>,
                 <<"!", "=">>} -> <<3, 4>>
      [] op \in {<<"+">>, <<"-">>} -> <<5, 6>>
      [] op \in {<<"*">>, <<"/">>, <<"/", "/">>} -> <<7, 8>>
      [] OTHER -> <<>>

\* Parser's methods call one another; dispatch(method, toks, idx, errs, a)
\* is the call of `method` with the parser at index idx, the sink holding
\* errs, and the arguments a.
RECURSIVE dispatch(_, _, _, _, _)

go_loop(toks, idx, errs, nodes) ==
    dispatch("go_loop", toks, idx, errs, <<nodes>>)

go(toks, idx, errs) == dispatch("go", toks, idx, errs, <<>>)

declaration(toks, idx, errs) == dispatch("declaration", toks, idx, errs, <<>>)

function_args(toks, idx, errs, arg_names, arg_types) ==
    dispatch("function_args", toks, idx, errs, <<arg_names, arg_types>>)

function_expression(toks, idx, errs) ==
    dispatch("function_expression", toks, idx, errs, <<>>)

assignment(toks, idx, errs) == dispatch("assignment", toks, idx, errs, <<>>)

if_expression(toks, idx, errs) ==
    dispatch("if_expression", toks, idx, errs, <<>>)

while_expression(toks, idx, errs) ==
    dispatch("while_expression", toks, idx, errs, <<>>)

loop_expression(toks, idx, errs) ==
    dispatch("loop_expression", toks, idx, errs, <<>>)

call_args(toks, idx, errs, args) ==
    dispatch("call_args", toks, idx, errs, <<args>>)

skip_newlines(toks, idx, errs) ==
    dispatch("skip_newlines", toks, idx, errs, <<>>)

nud(toks, idx, errs) == dispatch("nud", toks, idx, errs, <<>>)

expr_loop(toks, idx, errs, left, min_bp) ==
    dispatch("expr_loop", toks, idx, errs, <<left, min_bp>>)

expr(toks, idx, errs, min_bp) == dispatch("expr", toks, idx, errs, <<min_bp>>)

\* Parser::go, from one iteration of its loop on, with the nodes so far.
go_loop_body(toks, idx, errs, nodes) ==
    IF ~InBounds(toks, idx + 1) THEN Panic(idx, errs)
    ELSE
    LET stmt == IF toks[idx + 2].kind = "Colon" THEN declaration(toks, idx, errs)
                ELSE IF toks[idx + 2].kind = "Equals"
                     THEN assignment(toks, idx, errs)
                ELSE expr(toks, idx, errs, 0)
        pushed == Append(nodes, stmt.v)
        block(r) == Some(in_context(FALSE, Block(pushed)), r.idx, r.errs)
        eof1 == try_consume_of_kind(toks, stmt.idx, stmt.errs, "EOF")
        newline == consume_of_kind(toks, eof1.idx, eof1.errs, "Newline")
        rbrace == try_consume_of_kind(toks, newline.idx, newline.errs, "RBrace")
        eof2 == try_consume_of_kind(toks, rbrace.idx, rbrace.errs, "EOF")
    IN  IF stmt.st # "Some" THEN stmt
        ELSE IF eof1.st = "Panic" THEN eof1
        ELSE IF eof1.st = "Some" THEN block(eof1)
        ELSE IF newline.st # "Some" THEN newline
        ELSE IF rbrace.st = "Panic" THEN rbrace
        ELSE IF rbrace.st = "Some" THEN block(rbrace)
        ELSE IF eof2.st = "Panic" THEN eof2
        ELSE IF eof2.st = "Some" THEN block(eof2)
        ELSE go_loop(toks, eof2.idx, eof2.errs, pushed)

\* Parser::go
go_body(toks, idx, errs) == go_loop(toks, idx, errs, <<>>)

\* Parser::declaration
declaration_body(toks, idx, errs) ==
    LET name == consume_identifier(toks, idx, errs)
        colon == consume_of_kind(toks, name.idx, name.errs, "Colon")
        equals1 == try_consume_of_kind(toks, colon.idx, colon.errs, "Equals")
        unknown == in_context(TRUE, Literal("Unknown", <<>>))
        body1 == expr(toks, equals1.idx, equals1.errs, 0)
        typ == expr(toks, equals1.idx, equals1.errs, 0)
        equals2 == try_consume_of_kind(toks, typ.idx, typ.errs, "Equals")
        body2 == expr(toks, equals2.idx, equals2.errs, 0)
        undef == in_context(TRUE, Literal("Undefined", <<"u", "n", "d", "e", "f">>))
        decl(t, b, r) ==
            Some(in_context(TRUE, Declaration(name.v, t, b)), r.idx, r.errs)
    IN  IF name.st # "Some" THEN name
        ELSE IF colon.st # "Some" THEN colon
        ELSE IF equals1.st = "Panic" THEN equals1
        ELSE IF equals1.st = "Some" THEN
            IF body1.st # "Some" THEN body1 ELSE decl(unknown, body1.v, body1)
        ELSE IF typ.st # "Some" THEN typ
        ELSE IF equals2.st = "Panic" THEN equals2
        ELSE IF equals2.st = "Some" THEN
            IF body2.st # "Some" THEN body2 ELSE decl(typ.v, body2.v, body2)
        ELSE decl(typ.v, undef, equals2)

\* Parser::function_expression, the loop over the arguments: Some holds
\* <<arg_names, arg_types>>.
function_args_body(toks, idx, errs, arg_names, arg_types) ==
    LET name == consume_identifier(toks, idx, errs)
        colon == consume_of_kind(toks, name.idx, name.errs, "Colon")
        typ == expr(toks, colon.idx, colon.errs, 0)
        comma == try_consume_of_kind(toks, typ.idx, typ.errs, "Comma")
    IN  IF name.st # "Some" THEN name
        ELSE IF colon.st # "Some" THEN colon
        ELSE IF typ.st # "Some" THEN typ
        ELSE IF comma.st = "Panic" THEN comma
        ELSE IF comma.st = "None" THEN
            Some(<<Append(arg_names, name.v), Append(arg_types, typ.v)>>,
                 comma.idx, comma.errs)
        ELSE function_args(toks, comma.idx, comma.errs,
                           Append(arg_names, name.v), Append(arg_types, typ.v))

\* Parser::function_expression
function_expression_body(toks, idx, errs) ==
    LET lparen == consume_of_kind(toks, idx, errs, "LParen")
        rparen1 == try_consume_of_kind(toks, lparen.idx, lparen.errs, "RParen")
        args == function_args(toks, rparen1.idx, rparen1.errs, <<>>, <<>>)
        rparen2 == consume_of_kind(toks, args.idx, args.errs, "RParen")
        rest(names, types, i, e) ==
            LET ret_type == expr(toks, i, e, 0)
                body == expr(toks, ret_type.idx, ret_type.errs, 0)
            IN  IF ret_type.st # "Some" THEN ret_type
                ELSE IF body.st # "Some" THEN body
                ELSE Some(in_context(TRUE,
                              FunctionExpression(types, names,
                                                 <<ret_type.v>>, body.v)),
                          body.idx, body.errs)
    IN  IF lparen.st = "Panic" THEN lparen
        ELSE IF rparen1.st = "Panic" THEN rparen1
        ELSE IF rparen1.st = "Some" THEN
            rest(<<>>, <<>>, rparen1.idx, rparen1.errs)
        ELSE IF args.st # "Some" THEN args
        ELSE IF rparen2.st # "Some" THEN rparen2
        ELSE rest(args.v[1], args.v[2], rparen2.idx, rparen2.errs)

\* Parser::assignment
assignment_body(toks, idx, errs) ==
    LET name == consume_identifier(toks, idx, errs)
        equals == consume_of_kind(toks, name.idx, name.errs, "Equals")
        value == expr(toks, equals.idx, equals.errs, 0)
    IN  IF name.st # "Some" THEN name
        ELSE IF equals.st # "Some" THEN equals
        ELSE IF value.st # "Some" THEN value
        ELSE Some(in_context(FALSE, Assignment(name.v, value.v)),
                  value.idx, value.errs)

\* Parser::if_expression
if_expression_body(toks, idx, errs) ==
    LET condition == expr(toks, idx, errs, 0)
        then_body == expr(toks, condition.idx, condition.errs, 0)
        else_ == try_consume_of_kind(toks, then_body.idx, then_body.errs, "Else")
        else_body1 == expr(toks, else_.idx, else_.errs, 0)
        elif == try_consume_of_kind(toks, else_.idx, else_.errs, "Elif")
        else_body2 == if_expression(toks, elif.idx, elif.errs)
        undef == in_context(TRUE, Literal("Undefined", <<"u", "n", "d", "e", "f">>))
        ifx(b, r) ==
            Some(in_context(FALSE, IfExpression(condition.v, then_body.v, b)),
                 r.idx, r.errs)
    IN  IF condition.st # "Some" THEN condition
        ELSE IF then_body.st # "Some" THEN then_body
        ELSE IF else_.st = "Panic" THEN else_
        ELSE IF else_.st = "Some" THEN
            IF else_body1.st # "Some" THEN else_body1
            ELSE ifx(else_body1.v, else_body1)
        ELSE IF elif.st = "Panic" THEN elif
        ELSE IF elif.st = "Some" THEN
            IF else_body2.st # "Some" THEN else_body2
            ELSE ifx(else_body2.v, else_body2)
        ELSE ifx(undef, elif)

\* Parser::while_expression
while_expression_body(toks, idx, errs) ==
    LET condition == expr(toks, idx, errs, 0)
        body == expr(toks, condition.idx, condition.errs, 0)
    IN  IF condition.st # "Some" THEN condition
        ELSE IF body.st # "Some" THEN body
        ELSE Some(in_context(FALSE, WhileExpression(condition.v, body.v)),
                  body.idx, body.errs)

\* Parser::loop_expression
loop_expression_body(toks, idx, errs) ==
    LET condition == in_context(TRUE, Literal("Bool", <<"t", "r", "u", "e">>))
        body == expr(toks, idx, errs, 0)
    IN  IF body.st # "Some" THEN body
        ELSE Some(in_context(FALSE, WhileExpression(condition, body.v)),
                  body.idx, body.errs)

\* Parser::expr, the loop over the arguments of a call: Some holds args.
call_args_body(toks, idx, errs, args) ==
    LET peeked1 == peek(toks, idx, errs)
        arg == expr(toks, idx, errs, 0)
        peeked2 == peek(toks, arg.idx, arg.errs)
        comma == consume_of_kind(toks, arg.idx, arg.errs, "Comma")
    IN  IF peeked1.st # "Some" THEN peeked1
        ELSE IF peeked1.v.kind = "RParen" THEN Some(args, idx, errs)
        ELSE IF arg.st # "Some" THEN arg
        ELSE IF peeked2.st # "Some" THEN peeked2
        ELSE IF peeked2.v.kind # "Comma" THEN
            Some(Append(args, arg.v), arg.idx, arg.errs)
        ELSE IF comma.st # "Some" THEN comma
        ELSE call_args(toks, comma.idx, comma.errs, Append(args, arg.v))

\* Parser::expr (LBrace): while try_consume_of_kind(Newline).is_some() { }
skip_newlines_body(toks, idx, errs) ==
    LET newline == try_consume_of_kind(toks, idx, errs, "Newline") IN
    IF newline.st = "Some" THEN skip_newlines(toks, newline.idx, newline.errs)
    ELSE newline

\* Parser::expr, the match on the consumed token that forms the left operand
nud_body(toks, idx, errs) ==
    LET t == consume(toks, idx, errs) IN
    IF t.st # "Some" THEN t
    ELSE CASE t.v.kind = "Identifier" ->
            LET peeked == peek(toks, t.idx, t.errs)
                lparen == consume(toks, t.idx, t.errs)
                args == call_args(toks, lparen.idx, lparen.errs, <<>>)
                rparen == consume_of_kind(toks, args.idx, args.errs, "RParen")
            IN  IF peeked.st # "Some" THEN peeked
                ELSE IF peeked.v.kind = "LParen" THEN
                    IF args.st # "Some" THEN args
                    ELSE IF rparen.st # "Some" THEN rparen
                    ELSE Some(in_context(FALSE, Call(t.v.value, args.v)),
                              rparen.idx, rparen.errs)
                ELSE Some(in_context(FALSE, VariableRef(t.v.value)),
                          t.idx, t.errs)
         [] t.v.kind = "IntegerLiteral" ->
            Some(in_context(TRUE, Literal("IntLiteral", t.v.value)),
                 t.idx, t.errs)
         [] t.v.kind = "FloatLiteral" ->
            Some(in_context(TRUE, Literal("FloatLiteral", t.v.value)),
                 t.idx, t.errs)
         [] t.v.kind = "StringLiteral" ->
            Some(in_context(TRUE, Literal("StrLiteral", t.v.value)),
                 t.idx, t.errs)
         [] t.v.kind = "LParen" ->
            LET left == expr(toks, t.idx, t.errs, 0)
                rparen == consume_of_kind(toks, left.idx, left.errs, "RParen")
            IN  IF left.st # "Some" THEN left
                ELSE IF rparen.st # "Some" THEN rparen
                ELSE Some(left.v, rparen.idx, rparen.errs)
         [] t.v.kind = "Operator" ->
            LET right_bp == prefix_binding_power(t.v.value)
                right == expr(toks, t.idx, t.errs, right_bp)
            IN  IF right_bp = -1 THEN Panic(t.idx, t.errs)
                ELSE IF right.st # "Some" THEN right
                ELSE Some(in_context(FALSE, PrefixOp(t.v.value, right.v)),
                          right.idx, right.errs)
         [] t.v.kind = "LBrace" ->
            LET skipped == skip_newlines(toks, t.idx, t.errs) IN
            IF skipped.st = "Panic" THEN skipped
            ELSE go(toks, skipped.idx, skipped.errs)
         [] t.v.kind = "If" -> if_expression(toks, t.idx, t.errs)
         [] t.v.kind = "While" -> while_expression(toks, t.idx, t.errs)
         [] t.v.kind = "Loop" -> loop_expression(toks, t.idx, t.errs)
         [] t.v.kind = "Fn" -> function_expression(toks, t.idx, t.errs)
         [] t.v.kind = "EOF" ->
            None(t.idx, Append(t.errs,
                    ParserError("Encountered the end of the file while parsing",
                                <<>>, t.v.position)))
         [] OTHER -> Panic(t.idx, t.errs)

\* Parser::expr, its loop over the operators that follow the left operand
expr_loop_body(toks, idx, errs, left, min_bp) ==
    LET peeked == peek(toks, idx, errs)
        op == IF peeked.v.kind = "Operator" THEN peeked.v.value ELSE <<"[">>
        postfix == postfix_binding_power(op)
        infix == infix_binding_power(op)
        consumed == consume(toks, idx, errs)
        index_ == expr(toks, consumed.idx, consumed.errs, 0)
        rbracket == consume_of_kind(toks, index_.idx, index_.errs, "RBracket")
        right == expr(toks, consumed.idx, consumed.errs, infix[2])
    IN  IF peeked.st # "Some" THEN peeked
        ELSE IF peeked.v.kind \notin {"Operator", "LBracket"} THEN
            Some(left, idx, errs)
        ELSE IF postfix # <<>> THEN
            IF postfix[1] < min_bp THEN Some(left, idx, errs)
            ELSE IF op = <<"[">> THEN
                IF index_.st # "Some" THEN index_
                ELSE IF rbracket.st # "Some" THEN rbracket
                ELSE expr_loop(toks, rbracket.idx, rbracket.errs,
                               in_context(TRUE, IndexOp(left, index_.v)),
                               min_bp)
            ELSE expr_loop(toks, consumed.idx, consumed.errs,
                           in_context(TRUE, PostfixOp(op, left)), min_bp)
        ELSE IF infix # <<>> THEN
            IF infix[1] < min_bp THEN Some(left, idx, errs)
            ELSE IF right.st # "Some" THEN right
            ELSE expr_loop(toks, right.idx, right.errs,
                           in_context(FALSE, InfixOp(op, left, right.v)),
                           min_bp)
        ELSE Some(left, idx, errs)

\* Parser::expr
expr_body(toks, idx, errs, min_bp) ==
    LET left == nud(toks, idx, errs) IN
    IF left.st # "Some" THEN left
    ELSE expr_loop(toks, left.idx, left.errs, left.v, min_bp)


dispatch(method, toks, idx, errs, a) ==
    CASE method = "go_loop" -> go_loop_body(toks, idx, errs, a[1])
      [] method = "go" -> go_body(toks, idx, errs)
      [] method = "declaration" -> declaration_body(toks, idx, errs)
      [] method = "function_args" ->
            function_args_body(toks, idx, errs, a[1], a[2])
      [] method = "function_expression" ->
            function_expression_body(toks, idx, errs)
      [] method = "assignment" -> assignment_body(toks, idx, errs)
      [] method = "if_expression" -> if_expression_body(toks, idx, errs)
      [] method = "while_expression" -> while_expression_body(toks, idx, errs)
      [] method = "loop_expression" -> loop_expression_body(toks, idx, errs)
      [] method = "call_args" -> call_args_body(toks, idx, errs, a[1])
      [] method = "skip_newlines" -> skip_newlines_body(toks, idx, errs)
      [] method = "nud" -> nud_body(toks, idx, errs)
      [] method = "expr_loop" -> expr_loop_body(toks, idx, errs, a[1], a[2])
      [] method = "expr" -> expr_body(toks, idx, errs, a[1])

\* ------------------------------------------------------------ IR generator

\* InstructionKind.  (InstructionKind::Call is CallKind here: Call is the
\* parser's node.)
ConstBool(b) == <<"ConstBool", b>>

ConstInt(i) == <<"ConstInt", i>>

ConstFloat(f) == <<"ConstFloat", f>>

ConstString(str) == <<"ConstString", str>>

Allocate(name) == <<"Allocate", name>>

Push(name) == <<"Push", name>>

Pop(name) == <<"Pop", name>>

Add == <<"Add">>

Subtract == <<"Subtract">>

Multiply == <<"Multiply">>

ExactDivide == <<"ExactDivide">>

FloorDivide == <<"FloorDivide">>

Negate == <<"Negate">>

Test(compare_type) == <<"Test", compare_type>>

CallKind == <<"Call">>

Return == <<"Return">>

BranchIf(then_id, else_id) == <<"BranchIf", then_id, else_id>>

Jump(id) == <<"Jump", id>>

GetFunction(id) == <<"GetFunction", id>>

Instruction(kind, constant) == [kind |-> kind, constant |-> constant]

BasicBlock(id, instructions) == [id |-> id, instructions |-> instructions]

Function(id, args, retvals, blocks) ==
    [id |-> id, args |-> args, retvals |-> retvals, blocks |-> blocks]

\* Value::Bool
ValueBool(b) == [type |-> "Bool", v |-> b]

\* new_global_scope: a Scope maps names to values
new_global_scope ==
    (<<"t", "r", "u", "e">> :> ValueBool(TRUE))
        @@ (<<"f", "a", "l", "s", "e">> :> ValueBool(FALSE))
        @@ (<<"i", "3", "2">> :> ValueBool(FALSE))

\* IRGenerator::new: the generator's env, next_func_id and next_block_id.
\* env.functions maps function ids to functions.
IRGenerator ==
    [env |-> [scopes |-> <<new_global_scope>>, functions |-> <<>>],
     next_func_id |-> 0,
     next_block_id |-> 0]

\* The value of a decimal digit.
DigitValue(ch) ==
    CASE ch = "0" -> 0 [] ch = "1" -> 1 [] ch = "2" -> 2 [] ch = "3" -> 3
      [] ch = "4" -> 4 [] ch = "5" -> 5 [] ch = "6" -> 6 [] ch = "7" -> 7
      [] ch = "8" -> 8 [] ch = "9" -> 9

RECURSIVE DecimalValue(_)
\* The number a sequence of decimal digits denotes.
DecimalValue(s) ==
    IF s = <<>> THEN 0
    ELSE DecimalValue(SubSeq(s, 1, Len(s) - 1)) * 10 + DigitValue(s[Len(s)])

IsDecimal(s) == \A k \in DOMAIN s : is_digit(s[k])

\* value.parse::<i128>() on the text of a literal: <<n>> for Ok(n), <<>>
\* for Err.  (The literals of the inputs are far below the 39 digits at
\* which i128 overflows.)
parse_i128(s) ==
    IF s # <<>> /\ IsDecimal(s) THEN <<DecimalValue(s)>> ELSE <<>>

RECURSIVE TrimZeros(_)
\* A fraction without its trailing zeros.
TrimZeros(s) ==
    IF s # <<>> /\ s[Len(s)] = "0" THEN TrimZeros(SubSeq(s, 1, Len(s) - 1))
    ELSE s

\* value.parse::<f64>() on the text of a literal, digits around one '.':
\* <<f>> for Ok(f), <<>> for Err; f is the number num / 10^scale.
parse_f64(s) ==
    LET dots == {k \in DOMAIN s : s[k] = "."}
        dot == CHOOSE k \in dots : TRUE
        int == SubSeq(s, 1, dot - 1)
        frac == TrimZeros(SubSeq(s, dot + 1, Len(s)))
    IN  IF Cardinality(dots) = 1 /\ IsDecimal(int) /\ IsDecimal(frac)
           /\ int \o frac # <<>>
        THEN <<[num |-> DecimalValue(int \o frac), scale |-> Len(frac)]>>
        ELSE IF dots = {} THEN
            IF parse_i128(s) # <<>>
            THEN <<[num |-> DecimalValue(s), scale |-> 0]>> ELSE <<>>
        ELSE <<>>

\* The outcome of a generator method: it returned ("Ok") or aborted
\* ("Panic"); with the generator g and the function func it lowers into.
Done(g, func) == [st |-> "Ok", g |-> g, func |-> func]

Aborted(g, func) == [st |-> "Panic", g |-> g, func |-> func]

\* func.blocks.last_mut().unwrap().instructions.push(ins); every function
\* is built with two blocks, so last_mut() is never None.
push(func, ins) ==
    [func EXCEPT !.blocks[Len(func.blocks)].instructions = Append(@, ins)]

\* func.blocks.push(block)
push_block(func, blk) == [func EXCEPT !.blocks = Append(@, blk)]

\* IRGenerator::get_next_block_id without the increment of the counter.
get_next_block_id_stale(g) ==
    [id |-> g.next_block_id, g |-> [g EXCEPT !.next_block_id = @]]

\* IRGenerator::get_next_block_id: the id, and the generator after it
get_next_block_id(g) ==
    [id |-> g.next_block_id, g |-> [g EXCEPT !.next_block_id = @ + 1]]

\* IRGenerator::get_next_func_id
get_next_func_id(g) ==
    [id |-> g.next_func_id, g |-> [g EXCEPT !.next_func_id = @ + 1]]

\* IRGenerator's methods call one another through node; lower(method, g,
\* func, a) is the call of `method` with the arguments a.  Methods whose
\* names the parser's methods bear are prefixed with ir_.
RECURSIVE lower(_, _, _, _)

node(g, func, n) == lower("node", g, func, <<n>>)

\* for n in nodes { self.node(func, n) }
for_each_node(g, func, nodes) == lower("for_each_node", g, func, <<nodes>>)

for_each_node_body(g, func, nodes) ==
    IF nodes = <<>> THEN Done(g, func)
    ELSE LET r == node(g, func, nodes[1]) IN
         IF r.st = "Panic" THEN r
         ELSE for_each_node(r.g, r.func, Tail(nodes))

\* IRGenerator::block
block(g, func, nodes, constant) == for_each_node(g, func, nodes)

\* IRGenerator::infix_op: <<>> is unreachable!()
infix_kind(op) ==
    CASE op = <<"+">> -> <<Add>>
      [] op = <<"-">> -> <<Subtract>>
      [] op = <<"*">> -> <<Multiply>>
      [] op = <<"/">> -> <<ExactDivide>>
      [] op = <<"/", "/">> -> <<FloorDivide>>
      [] op = <<"=", "=">> -> <<Test("EQ")>>
      [] op = <<"!", "=">> -> <<Test("NE")>>
      [] op = <<"<">> -> <<Test("LT")>>
      [] op = <<">">> -> <<Test("GT")>>
      [] op = <<"<", "=">> -> <<Test("LE")>>
      [] op = <<">", "=">> -> <<Test("GE")>>
      [] OTHER -> <<>>

infix_op(g, func, op, left, right, constant) ==
    LET l == node(g, func, left)
        r == node(l.g, l.func, right)
        kind == infix_kind(op)
    IN  IF l.st = "Panic" THEN l
        ELSE IF r.st = "Panic" THEN r
        ELSE IF kind = <<>> THEN Aborted(r.g, r.func)
        ELSE Done(r.g, push(r.func, Instruction(kind[1], constant)))

\* IRGenerator::prefix_op: every operator but "-" is unreachable!()
prefix_op(g, func, op, right, constant) ==
    LET r == node(g, func, right) IN
    IF r.st = "Panic" THEN r
    ELSE IF op = <<"-">>
    THEN Done(r.g, push(r.func, Instruction(Negate, constant)))
    ELSE Aborted(r.g, r.func)

\* IRGenerator::postfix_op: todo!()
postfix_op(g, func, op, left, constant) == Aborted(g, func)

\* IRGenerator::index_op: todo!()
index_op(g, func, object, idx, constant) == Aborted(g, func)

\* IRGenerator::literal, the kind of the instruction: <<>> is an abort, of
\* unreachable!(), unwrap() on Err, or todo!()
literal_kind(typ, value) ==
    CASE typ = "Bool" ->
            IF value = <<"t", "r", "u", "e">> THEN <<ConstBool(TRUE)>>
            ELSE IF value = <<"f", "a", "l", "s", "e">>
            THEN <<ConstBool(FALSE)>>
            ELSE <<>>
      [] typ = "IntLiteral" ->
            IF parse_i128(value) # <<>>
            THEN <<ConstInt(parse_i128(value)[1])>> ELSE <<>>
      [] typ = "FloatLiteral" ->
            IF parse_f64(value) # <<>>
            THEN <<ConstFloat(parse_f64(value)[1])>> ELSE <<>>
      [] typ = "StrLiteral" -> <<ConstString(value)>>
      [] OTHER -> <<>>

literal(g, func, typ, value, constant) ==
    LET kind == literal_kind(typ, value) IN
    IF kind = <<>> THEN Aborted(g, func)
    ELSE Done(g, push(func, Instruction(kind[1], constant)))

\* IRGenerator::call
call(g, func, name, args, constant) ==
    LET r == for_each_node(g, func, args) IN
    IF r.st = "Panic" THEN r
    ELSE Done(r.g, push(push(r.func, Instruction(Push(name), constant)),
                        Instruction(CallKind, constant)))

\* IRGenerator::variable_ref
variable_ref(g, func, name, constant) ==
    Done(g, push(func, Instruction(Push(name), constant)))

\* IRGenerator::declaration without its Allocate.
ir_declaration_no_allocate(g, func, name, typ, body, constant) ==
    LET t == node(g, func, typ)
        allocated == t.func
        b == node(t.g, allocated, body)
    IN  IF t.st = "Panic" THEN t
        ELSE IF b.st = "Panic" THEN b
        ELSE Done(b.g, push(b.func, Instruction(Pop(name), constant)))

\* IRGenerator::declaration
ir_declaration(g, func, name, typ, body, constant) ==
    LET t == node(g, func, typ)
        allocated == push(t.func, Instruction(Allocate(name), constant))
        b == node(t.g, allocated, body)
    IN  IF t.st = "Panic" THEN t
        ELSE IF b.st = "Panic" THEN b
        ELSE Done(b.g, push(b.func, Instruction(Pop(name), constant)))

\* IRGenerator::function_expression
ir_function_expression(g, func, arg_types, arg_names, ret_types, body, constant) ==
    LET id == get_next_func_id(g)
        entry == get_next_block_id(id.g)
        first == get_next_block_id(entry.g)
        new_func == Function(id.id, Len(arg_types), Len(ret_types),
                             <<BasicBlock(entry.id, <<>>),
                               BasicBlock(first.id, <<>>)>>)
        b == node(first.g, new_func, body)
        returned == push(b.func, Instruction(Return, constant))
    IN  IF b.st = "Panic" THEN Aborted(b.g, func)
        ELSE Done([b.g EXCEPT !.env.functions = (returned.id :> returned) @@ @],
                  push(func, Instruction(GetFunction(returned.id), constant)))

\* IRGenerator::if_expression with the blocks of the two bodies in the
\* other order.
ir_if_expression_else_first(g, func, condition, then_body, else_body, constant) ==
    LET c == node(g, func, condition)
        then_block_id == get_next_block_id(c.g)
        else_block_id == get_next_block_id(then_block_id.g)
        end_block_id == get_next_block_id(else_block_id.g)
        branch == push(c.func,
                       Instruction(BranchIf(then_block_id.id,
                                            else_block_id.id), constant))
        e == node(end_block_id.g,
                  push_block(branch, BasicBlock(else_block_id.id, <<>>)),
                  else_body)
        e_jump == push(e.func, Instruction(Jump(end_block_id.id), constant))
        t == node(e.g,
                  push_block(e_jump, BasicBlock(then_block_id.id, <<>>)),
                  then_body)
        t_jump == push(t.func, Instruction(Jump(end_block_id.id), constant))
    IN  IF c.st = "Panic" THEN c
        ELSE IF e.st = "Panic" THEN e
        ELSE IF t.st = "Panic" THEN t
        ELSE Done(t.g, push_block(t_jump, BasicBlock(end_block_id.id, <<>>)))

\* IRGenerator::if_expression without the push of its end block.
ir_if_expression_no_end(g, func, condition, then_body, else_body, constant) ==
    LET c == node(g, func, condition)
        then_block_id == get_next_block_id(c.g)
        else_block_id == get_next_block_id(then_block_id.g)
        end_block_id == get_next_block_id(else_block_id.g)
        branch == push(c.func,
                       Instruction(BranchIf(then_block_id.id,
                                            else_block_id.id), constant))
        t == node(end_block_id.g,
                  push_block(branch, BasicBlock(then_block_id.id, <<>>)),
                  then_body)
        t_jump == push(t.func, Instruction(Jump(end_block_id.id), constant))
        e == node(t.g,
                  push_block(t_jump, BasicBlock(else_block_id.id, <<>>)),
                  else_body)
        e_jump == push(e.func, Instruction(Jump(end_block_id.id), constant))
    IN  IF c.st = "Panic" THEN c
        ELSE IF t.st = "Panic" THEN t
        ELSE IF e.st = "Panic" THEN e
        ELSE Done(e.g, e_jump)

\* IRGenerator::if_expression
ir_if_expression(g, func, condition, then_body, else_body, constant) ==
    LET c == node(g, func, condition)
        then_block_id == get_next_block_id(c.g)
        else_block_id == get_next_block_id(then_block_id.g)
        end_block_id == get_next_block_id(else_block_id.g)
        branch == push(c.func,
                       Instruction(BranchIf(then_block_id.id,
                                            else_block_id.id), constant))
        t == node(end_block_id.g,
                  push_block(branch, BasicBlock(then_block_id.id, <<>>)),
                  then_body)
        t_jump == push(t.func, Instruction(Jump(end_block_id.id), constant))
        e == node(t.g,
                  push_block(t_jump, BasicBlock(else_block_id.id, <<>>)),
                  else_body)
        e_jump == push(e.func, Instruction(Jump(end_block_id.id), constant))
    IN  IF c.st = "Panic" THEN c
        ELSE IF t.st = "Panic" THEN t
        ELSE IF e.st = "Panic" THEN e
        ELSE Done(e.g, push_block(e_jump, BasicBlock(end_block_id.id, <<>>)))

\* IRGenerator::while_expression that lowers the condition.
ir_while_expression_condition(g, func, condition, body, constant) ==
    node(g, func, condition)

\* IRGenerator::while_expression: its body is empty
ir_while_expression(g, func, condition, body, constant) == Done(g, func)

\* IRGenerator::assignment
ir_assignment(g, func, name, value, constant) ==
    LET v == node(g, func, value) IN
    IF v.st = "Panic" THEN v
    ELSE Done(v.g, push(v.func, Instruction(Pop(name), constant)))

\* IRGenerator::node
node_body(g, func, n) ==
    LET nd == n.node IN
    CASE nd.node = "Block" -> block(g, func, nd.nodes, n.constant)
      [] nd.node = "InfixOp" ->
            infix_op(g, func, nd.op, nd.left, nd.right, n.constant)
      [] nd.node = "PrefixOp" -> prefix_op(g, func, nd.op, nd.right, n.constant)
      [] nd.node = "PostfixOp" ->
            postfix_op(g, func, nd.op, nd.left, n.constant)
      [] nd.node = "IndexOp" ->
            index_op(g, func, nd.object, nd.index, n.constant)
      [] nd.node = "Literal" -> literal(g, func, nd.typ, nd.value, n.constant)
      [] nd.node = "Call" -> call(g, func, nd.name, nd.args, n.constant)
      [] nd.node = "VariableRef" -> variable_ref(g, func, nd.name, n.constant)
      [] nd.node = "Declaration" ->
            ir_declaration(g, func, nd.name, nd.typ, nd.body, n.constant)
      [] nd.node = "FunctionExpression" ->
            ir_function_expression(g, func, nd.arg_types, nd.arg_names,
                                   nd.ret_types, nd.body, n.constant)
      [] nd.node = "IfExpression" ->
            ir_if_expression(g, func, nd.condition, nd.then_body,
                             nd.else_body, n.constant)
      [] nd.node = "WhileExpression" ->
            ir_while_expression(g, func, nd.condition, nd.body, n.constant)
      [] nd.node = "Assignment" ->
            ir_assignment(g, func, nd.name, nd.value, n.constant)

lower(method, g, func, a) ==
    CASE method = "node" -> node_body(g, func, a[1])
      [] method = "for_each_node" -> for_each_node_body(g, func, a[1])

\* IRGenerator::go without the Push("main") and Call it appends.
ir_go_no_call(g, ast) ==
    LET id == get_next_func_id(g)
        entry == get_next_block_id(id.g)
        first == get_next_block_id(entry.g)
        top_level_fn == Function(id.id, 0, 0,
                                 <<BasicBlock(entry.id, <<>>),
                                   BasicBlock(first.id, <<>>)>>)
        r == node(first.g, top_level_fn, ast)
        called == r.func
    IN  IF r.st = "Panic" THEN r
        ELSE Done([r.g EXCEPT !.env.functions = (0 :> called) @@ @], called)

\* IRGenerator::go on the tree ast: the outcome holds the generator, whose
\* env is returned, and the top-level function.
ir_go(g, ast) ==
    LET id == get_next_func_id(g)
        entry == get_next_block_id(id.g)
        first == get_next_block_id(entry.g)
        top_level_fn == Function(id.id, 0, 0,
                                 <<BasicBlock(entry.id, <<>>),
                                   BasicBlock(first.id, <<>>)>>)
        r == node(first.g, top_level_fn, ast)
        called == push(push(r.func, Instruction(Push(<<"m", "a", "i", "n">>),
                                                FALSE)),
                       Instruction(CallKind, FALSE))
    IN  IF r.st = "Panic" THEN r
        ELSE Done([r.g EXCEPT !.env.functions = (0 :> called) @@ @], called)

\* ------------------------------------------------------------ interpreter

\* Value.  (ValueBool is defined with new_global_scope.)
ValueInteger(i) == [type |-> "Integer", v |-> i]

ValueFloat(f) == [type |-> "Float", v |-> f]

ValueString(str) == [type |-> "String", v |-> str]

ValueFunction(func) == [type |-> "Function", v |-> func]

\* Location
Location(function, blk, instruction) ==
    [function |-> function, block |-> blk, instruction |-> instruction]

\* An f64 is held as the fraction num / den it denotes, in lowest terms
\* with den > 0; den = 0 holds the values that are not finite: num = 1 is
\* +inf, num = -1 is -inf, num = 0 is NaN.  (The sign of zero is not held.)
Sgn(n) == IF n > 0 THEN 1 ELSE IF n < 0 THEN -1 ELSE 0

Abs(n) == IF n < 0 THEN -n ELSE n

RECURSIVE GCD(_, _)
GCD(a, b) == IF b = 0 THEN a ELSE GCD(b, a % b)

f64(num, den) ==
    IF den = 0 THEN [num |-> Sgn(num), den |-> 0]
    ELSE LET g == GCD(Abs(num), Abs(den)) IN
         [num |-> Sgn(den) * (num \div g), den |-> Abs(den) \div g]

RECURSIVE Pow10(_)
Pow10(n) == IF n = 0 THEN 1 ELSE 10 * Pow10(n - 1)

\* f1 + f2
f64_add(a, b) ==
    IF a.den = 0 /\ b.den = 0 THEN (IF a.num = b.num THEN a ELSE f64(0, 0))
    ELSE IF a.den = 0 THEN a
    ELSE IF b.den = 0 THEN b
    ELSE f64(a.num * b.den + b.num * a.den, a.den * b.den)

\* -f1
f64_neg(a) == [num |-> 0 - a.num, den |-> a.den]

\* f1 * f2
f64_mul(a, b) ==
    IF a.den = 0 \/ b.den = 0 THEN f64(Sgn(a.num) * Sgn(b.num), 0)
    ELSE f64(a.num * b.num, a.den * b.den)

\* 1.0 / f1
f64_inv(a) ==
    IF a.den = 0 THEN (IF a.num = 0 THEN a ELSE f64(0, 1))
    ELSE IF a.num = 0 THEN f64(1, 0)
    ELSE f64(a.den, a.num)

\* f2 / f1
f64_div(a, b) == f64_mul(a, f64_inv(b))

\* f1 == f2: NaN equals nothing
f64_eq(a, b) == a = b /\ ~(a.den = 0 /\ a.num = 0)

\* The bounds of i128, which `as i128` saturates to.  The numbers stand
\* for 2^127 - 1 and -2^127, which are beyond the integers of the checker.
i128_MAX == 2147483647

i128_MIN == -2147483647

\* f.floor() as i128
floor_as_i128(a) ==
    IF a.den = 0
    THEN (IF a.num = 0 THEN 0 ELSE IF a.num > 0 THEN i128_MAX ELSE i128_MIN)
    ELSE a.num \div a.den

\* i2 / i1 on i128: the quotient rounded toward zero
i128_div(a, b) == Sgn(a) * Sgn(b) * (Abs(a) \div Abs(b))

\* The outcome of a step of the interpreter s (its env, stack, call_stack,
\* current and finished): it went on ("Ok") or the process aborted
\* ("Panic").
Running(s) == [st |-> "Ok", s |-> s]

Crashed(s) == [st |-> "Panic", s |-> s]

\* Interpreter::advance; blocks[self.current.block] out of bounds aborts
advance(s) ==
    LET blocks == s.env.functions[s.current.function].blocks
        instruction == s.current.instruction + 1
        over == instruction >= Len(blocks[s.current.block + 1].instructions)
        blk == IF over THEN s.current.block + 1 ELSE s.current.block
    IN  IF s.current.block >= Len(blocks) THEN Crashed(s)
        ELSE Running([s EXCEPT
                 !.current = Location(s.current.function, blk,
                                      IF over THEN 0 ELSE instruction),
                 !.finished = IF blk >= Len(blocks) THEN TRUE ELSE @])

\* self.stack.push(value); self.advance()
push_value(s, value) == advance([s EXCEPT !.stack = Append(@, value)])

\* The stack without its top
Popped(stk) == SubSeq(stk, 1, Len(stk) - 1)

Top(stk) == stk[Len(stk)]

\* Interpreter::const_bool
const_bool(s, value) == push_value(s, ValueBool(value))

\* Interpreter::const_int
const_int(s, value) == push_value(s, ValueInteger(value))

\* Interpreter::const_float: the literal num / 10^scale
const_float(s, value) ==
    push_value(s, ValueFloat(f64(value.num, Pow10(value.scale))))

\* Interpreter::const_string
const_string(s, value) == push_value(s, ValueString(value))

\* Environment::current_scope: the index of the last scope; the scopes are
\* never empty
current_scope(env) == Len(env.scopes)

\* Interpreter::allocate
allocate(s, name) ==
    IF s.stack = <<>> THEN Crashed(s)
    ELSE advance([s EXCEPT
             !.env.scopes[current_scope(s.env)] = (name :> Top(s.stack)) @@ @,
             !.stack = Popped(@)])

\* Interpreter::push: indexing the scope by a name it does not hold aborts
interp_push(s, name) ==
    IF name \notin DOMAIN s.env.scopes[current_scope(s.env)] THEN Crashed(s)
    ELSE push_value(s, s.env.scopes[current_scope(s.env)][name])

\* Interpreter::pop
pop(s, name) ==
    IF s.stack = <<>> THEN Crashed(s)
    ELSE IF name \notin DOMAIN s.env.scopes[current_scope(s.env)]
    THEN Crashed(s)
    ELSE advance([s EXCEPT
             !.env.scopes[current_scope(s.env)][name] = Top(s.stack),
             !.stack = Popped(@)])

\* let v1 = self.stack.pop().unwrap(); let v2 = self.stack.pop().unwrap();
\* the interpreter after the two pops
Popped2(s) == [s EXCEPT !.stack = SubSeq(@, 1, Len(@) - 2)]

\* Interpreter::add
add(s) ==
    LET v1 == s.stack[Len(s.stack)]
        v2 == s.stack[Len(s.stack) - 1]
    IN  IF Len(s.stack) < 2 THEN Crashed(s)
        ELSE IF v1.type = "Integer" /\ v2.type = "Integer"
        THEN push_value(Popped2(s), ValueInteger(v1.v + v2.v))
        ELSE IF v1.type = "Float" /\ v2.type = "Float"
        THEN push_value(Popped2(s), ValueFloat(f64_add(v1.v, v2.v)))
        ELSE Crashed(s)

\* Interpreter::subtract with its operands exchanged.
subtract_swapped(s) ==
    LET v1 == s.stack[Len(s.stack)]
        v2 == s.stack[Len(s.stack) - 1]
    IN  IF Len(s.stack) < 2 THEN Crashed(s)
        ELSE IF v1.type = "Integer" /\ v2.type = "Integer"
        THEN push_value(Popped2(s), ValueInteger(v1.v - v2.v))
        ELSE IF v1.type = "Float" /\ v2.type = "Float"
        THEN push_value(Popped2(s),
                        ValueFloat(f64_add(v2.v, f64_neg(v1.v))))
        ELSE Crashed(s)

\* Interpreter::subtract
subtract(s) ==
    LET v1 == s.stack[Len(s.stack)]
        v2 == s.stack[Len(s.stack) - 1]
    IN  IF Len(s.stack) < 2 THEN Crashed(s)
        ELSE IF v1.type = "Integer" /\ v2.type = "Integer"
        THEN push_value(Popped2(s), ValueInteger(v2.v - v1.v))
        ELSE IF v1.type = "Float" /\ v2.type = "Float"
        THEN push_value(Popped2(s),
                        ValueFloat(f64_add(v2.v, f64_neg(v1.v))))
        ELSE Crashed(s)

\* Interpreter::multiply
multiply(s) ==
    LET v1 == s.stack[Len(s.stack)]
        v2 == s.stack[Len(s.stack) - 1]
    IN  IF Len(s.stack) < 2 THEN Crashed(s)
        ELSE IF v1.type = "Integer" /\ v2.type = "Integer"
        THEN push_value(Popped2(s), ValueInteger(v1.v * v2.v))
        ELSE IF v1.type = "Float" /\ v2.type = "Float"
        THEN push_value(Popped2(s), ValueFloat(f64_mul(v1.v, v2.v)))
        ELSE Crashed(s)

\* Interpreter::exact_divide
exact_divide(s) ==
    LET v1 == s.stack[Len(s.stack)]
        v2 == s.stack[Len(s.stack) - 1]
    IN  IF Len(s.stack) < 2 THEN Crashed(s)
        ELSE IF v1.type = "Integer" /\ v2.type = "Integer"
        THEN push_value(Popped2(s),
                        ValueFloat(f64_div(f64(v2.v, 1), f64(v1.v, 1))))
        ELSE IF v1.type = "Float" /\ v2.type = "Float"
        THEN push_value(Popped2(s), ValueFloat(f64_div(v2.v, v1.v)))
        ELSE Crashed(s)

\* Interpreter::floor_divide: i2 / i1 aborts when i1 is zero
floor_divide(s) ==
    LET v1 == s.stack[Len(s.stack)]
        v2 == s.stack[Len(s.stack) - 1]
    IN  IF Len(s.stack) < 2 THEN Crashed(s)
        ELSE IF v1.type = "Integer" /\ v2.type = "Integer"
        THEN IF v1.v = 0 THEN Crashed(s)
             ELSE push_value(Popped2(s), ValueInteger(i128_div(v2.v, v1.v)))
        ELSE IF v1.type = "Float" /\ v2.type = "Float"
        THEN push_value(Popped2(s),
                        ValueInteger(floor_as_i128(f64_div(v2.v, v1.v))))
        ELSE Crashed(s)

\* Interpreter::negate
negate(s) ==
    LET v1 == s.stack[Len(s.stack)]
        rest == [s EXCEPT !.stack = Popped(@)]
    IN  IF s.stack = <<>> THEN Crashed(s)
        ELSE IF v1.type = "Integer"
        THEN push_value(rest, ValueInteger(0 - v1.v))
        ELSE IF v1.type = "Float"
        THEN push_value(rest, ValueFloat(f64_neg(v1.v)))
        ELSE Crashed(s)

\* Interpreter::test: every comparison but EQ is unreachable!()
test(s, compare_type) ==
    LET v1 == s.stack[Len(s.stack)]
        v2 == s.stack[Len(s.stack) - 1]
    IN  IF Len(s.stack) < 2 THEN Crashed(s)
        ELSE IF v1.type = "Function" \/ v1.type # v2.type THEN Crashed(s)
        ELSE IF compare_type # "EQ" THEN Crashed(s)
        ELSE IF v1.type = "Float"
        THEN push_value(Popped2(s), ValueBool(f64_eq(v1.v, v2.v)))
        ELSE push_value(Popped2(s), ValueBool(v1.v = v2.v))

\* Interpreter::call: a value that is no Function leaves `current` alone;
\* a function the table does not hold, or one without blocks, aborts
interp_call(s) ==
    LET func == Top(s.stack)
        pushed == [s EXCEPT !.call_stack = Append(@, s.current),
                            !.stack = Popped(@)]
        blocks == s.env.functions[func.v.id].blocks
    IN  IF s.stack = <<>> THEN Crashed(s)
        ELSE IF func.type # "Function" THEN Running(pushed)
        ELSE IF func.v.id \notin DOMAIN s.env.functions THEN Crashed(s)
        ELSE IF blocks = <<>> THEN Crashed(s)
        ELSE Running([pushed EXCEPT
                 !.current = Location(func.v.id, blocks[Len(blocks)].id, 0)])

\* Interpreter::return_
return_(s) ==
    IF Len(s.call_stack) > 0
    THEN Running([s EXCEPT !.call_stack = Popped(@),
                           !.current = Top(s.call_stack)])
    ELSE Running([s EXCEPT !.finished = TRUE])

\* Interpreter::branch_if
branch_if(s, then_block, else_block) ==
    IF s.stack = <<>> THEN Crashed(s)
    ELSE IF Top(s.stack).type # "Bool" THEN Crashed(s)
    ELSE Running([s EXCEPT
             !.stack = Popped(@),
             !.current = Location(s.current.function,
                                  IF Top(s.stack).v THEN then_block
                                  ELSE else_block, 0)])

\* Interpreter::jump
jump(s, blk) ==
    Running([s EXCEPT !.current = Location(s.current.function, blk, 0)])

\* Interpreter::get_function
get_function(s, func) ==
    IF func \notin DOMAIN s.env.functions THEN Crashed(s)
    ELSE push_value(s, ValueFunction(s.env.functions[func]))

\* Interpreter::go, the fetch of its loop: whether
\* functions[&current.function].blocks[current.block]
\* .instructions[current.instruction] is in bounds
Fetchable(s) ==
    /\ s.current.function \in DOMAIN s.env.functions
    /\ s.current.block < Len(s.env.functions[s.current.function].blocks)
    /\ s.current.instruction <
           Len(s.env.functions[s.current.function]
                   .blocks[s.current.block + 1].instructions)

Fetched(s) ==
    s.env.functions[s.current.function]
        .blocks[s.current.block + 1].instructions[s.current.instruction + 1]

\* Interpreter::go, the match of its loop on the kind of the instruction
execute(s, kind) ==
    CASE kind[1] = "ConstBool" -> const_bool(s, kind[2])
      [] kind[1] = "ConstInt" -> const_int(s, kind[2])
      [] kind[1] = "ConstFloat" -> const_float(s, kind[2])
      [] kind[1] = "ConstString" -> const_string(s, kind[2])
      [] kind[1] = "Allocate" -> allocate(s, kind[2])
      [] kind[1] = "Push" -> interp_push(s, kind[2])
      [] kind[1] = "Pop" -> pop(s, kind[2])
      [] kind[1] = "Add" -> add(s)
      [] kind[1] = "Subtract" -> subtract(s)
      [] kind[1] = "Multiply" -> multiply(s)
      [] kind[1] = "ExactDivide" -> exact_divide(s)
      [] kind[1] = "FloorDivide" -> floor_divide(s)
      [] kind[1] = "Negate" -> negate(s)
      [] kind[1] = "Test" -> test(s, kind[2])
      [] kind[1] = "Call" -> interp_call(s)
      [] kind[1] = "Return" -> return_(s)
      [] kind[1] = "BranchIf" -> branch_if(s, kind[2], kind[3])
      [] kind[1] = "Jump" -> jump(s, kind[2])
      [] kind[1] = "GetFunction" -> get_function(s, kind[2])

\* -------------------------------------------------------------------- main

lexerVars == <<code, index, state, token, start_position, tokens, pc>>

\* main, lines 38 to 47: Parser::new(&results, ...) and parser.go() on the
\* lexer's tokens; an abort of the parser ends the process.
MainParser ==
    /\ stage = "lexer" /\ pc = "done"
    /\ LET r == go(tokens, 0, errors) IN
           /\ errors' = r.errs
           /\ IF r.st = "Panic"
              THEN stage' = "panic" /\ results' = results
              ELSE stage' = "parser" /\ results' = [st |-> r.st, v |-> r.v]
    /\ UNCHANGED <<lexerVars, ir_generator, interpreterVars>>

\* main, lines 49 and 50: results.unwrap(), which aborts on None; with a
\* tree the IR generator is next.
MainUnwrap ==
    /\ stage = "parser"
    /\ stage' = IF results.st = "None" THEN "panic" ELSE "ir"
    /\ UNCHANGED <<lexerVars, errors, results, ir_generator, interpreterVars>>

\* main, lines 51 and 52: IRGenerator::new(&unwrapped, ...) and
\* ir_generator.go(); an abort of the generator ends the process.
MainIR ==
    /\ stage = "ir"
    /\ LET r == ir_go(IRGenerator, results.v) IN
           IF r.st = "Panic"
           THEN stage' = "panic" /\ ir_generator' = ir_generator
           ELSE stage' = "interpreter"
                /\ ir_generator' = [st |-> "Returned", env |-> r.g.env,
                                    next_func_id |-> r.g.next_func_id,
                                    next_block_id |-> r.g.next_block_id]
    /\ UNCHANGED <<lexerVars, errors, results, interpreterVars>>

\* main, line 63: Interpreter::new(&mut ir_generator.env, 0), which starts
\* at the block of function 0 at index 1 and aborts without it.
MainInterpreter ==
    /\ stage = "interpreter"
    /\ LET functions == ir_generator.env.functions IN
           IF 0 \notin DOMAIN functions \/ Len(functions[0].blocks) < 2
           THEN stage' = "panic" /\ UNCHANGED interpreterVars
           ELSE /\ stage' = "go"
                /\ stack' = <<>>
                /\ call_stack' = <<>>
                /\ current' = Location(0, functions[0].blocks[2].id, 0)
                /\ finished' = FALSE
    /\ UNCHANGED <<lexerVars, errors, results, ir_generator>>

\* The interpreter as one value
Interpreter ==
    [env |-> ir_generator.env, stack |-> stack, call_stack |-> call_stack,
     current |-> current, finished |-> finished]

\* main, line 64: interpreter.go(), one iteration of its loop: it returns
\* to main once finished, and main prints the stack and returns Ok;
\* otherwise it fetches the instruction at `current` and executes it, and
\* an abort of the fetch or of the instruction ends the process.
InterpreterGo ==
    /\ stage = "go"
    /\ IF finished
       THEN stage' = "done" /\ UNCHANGED <<ir_generator, interpreterVars>>
       ELSE LET r == IF Fetchable(Interpreter)
                     THEN execute(Interpreter, Fetched(Interpreter).kind)
                     ELSE Crashed(Interpreter)
            IN  IF r.st = "Panic"
                THEN stage' = "panic"
                     /\ UNCHANGED <<ir_generator, interpreterVars>>
                ELSE /\ stage' = stage
                     /\ ir_generator' = [ir_generator EXCEPT !.env = r.s.env]
                     /\ stack' = r.s.stack
                     /\ call_stack' = r.s.call_stack
                     /\ current' = r.s.current
                     /\ finished' = r.s.finished
    /\ UNCHANGED <<lexerVars, errors, results>>

Next ==
    \/ LexNormal
    \/ LexInteger
    \/ LexFloat
    \/ LexString
    \/ LexOperator
    \/ LexIdentifier
    \/ LexEscape
    \/ MainParser
    \/ MainUnwrap
    \/ MainIR
    \/ MainInterpreter
    \/ InterpreterGo

Spec == Init /\ [][Next]_vars

\* The iterations of Lexer::go
LexerNext ==
    \/ LexNormal
    \/ LexInteger
    \/ LexFloat
    \/ LexString
    \/ LexOperator
    \/ LexIdentifier
    \/ LexEscape

\* go is a `loop` with no wait in it: while it has not returned or
\* aborted, its next iteration is taken.
LexerFairSpec == Init /\ [][Next]_vars /\ WF_vars(LexerNext)

\* ------------------------------------------------------------------ claims

RECURSIVE ByteOffset(_, _)
\* The byte offset, in the UTF-8 input, of the character of index i.
ByteOffset(c, i) ==
    IF i = 0 THEN 0 ELSE ByteOffset(c, i - 1) + len_utf8(c[i])

NoEOF(toks) == \A k \in DOMAIN toks : toks[k].kind # "EOF"

\* C1: the token sequence go returns holds exactly one EOF token, as its
\* last token, positioned at the number of characters of the input; before
\* go returns no EOF token has been emitted.
C1_ExactlyOneEofLast ==
    IF pc = "done"
    THEN /\ tokens # <<>>
         /\ tokens[Len(tokens)] = Token("EOF", <<>>, Len(code))
         /\ NoEOF(SubSeq(tokens, 1, Len(tokens) - 1))
    ELSE NoEOF(tokens)

\* go has returned at least three tokens for a non-empty input.
C1_Witness == pc = "done" /\ Len(tokens) >= 3 /\ Len(code) >= 3

\* C2: the lexer never aborts, whatever the input.
C2_LexerNeverAborts == pc # "panic"

\* The characters of the unterminated literal opened at index open, as the
\* String state buffers them.
LiteralText(c, open) ==
    SelectSeq(SubSeq(c, open + 2, Len(c)), LAMBDA ch : ch # NUL)

\* The diagnostics of the lexer, in the order recorded.
LexerErrors == SelectSeq(errors, LAMBDA e : e.stage = "Lexer")

\* C3: when the input ends inside a string literal, exactly one Lexer
\* diagnostic is positioned at the input length, its message holds the
\* buffered text of the literal, no StringLiteral token was emitted for the
\* literal, and EOF is emitted at the input length.
C3_EofInsideString ==
    (pc = "done" /\ state = "String") =>
        /\ Cardinality({k \in DOMAIN LexerErrors :
                            LexerErrors[k].position = Len(code)}) = 1
        /\ LexerErrors[Len(LexerErrors)] =
               LexerError("Found EOF while parsing a string literal",
                          token, Len(code))
        /\ token = LiteralText(code, start_position)
        /\ CharAt(code, start_position) = "\""
        /\ \A k \in DOMAIN tokens :
               ~(tokens[k].kind = "StringLiteral"
                 /\ tokens[k].position >= start_position)
        /\ tokens[Len(tokens)] = Token("EOF", <<>>, Len(code))

\* The input ended inside a literal with buffered text, after another token.
C3_Witness ==
    /\ pc = "done" /\ state = "String"
    /\ token # <<>>
    /\ Len(tokens) >= 2
    /\ LexerErrors # <<>>

\* Whether the source text of token t begins at the character of index i.
TextBeginsAt(c, i, t) ==
    IF t.kind = "StringLiteral"
    THEN /\ CharAt(c, i) = "\""
         /\ \E j \in (i + 1)..(Len(c) - 1) :
                /\ c[j + 1] = "\""
                /\ SelectSeq(SubSeq(c, i + 2, j), LAMBDA ch : ch # NUL)
                       = t.value
    ELSE /\ i + Len(t.value) <= Len(c)
         /\ SubSeq(c, i + 1, i + Len(t.value)) = t.value

\* C4: the position of every token other than EOF is the byte offset at
\* which the token's source text begins.
C4_PositionIsByteOffset ==
    \A k \in DOMAIN tokens :
        tokens[k].kind # "EOF" =>
            \E i \in 0..(Len(code) - 1) :
                /\ ByteOffset(code, i) = tokens[k].position
                /\ TextBeginsAt(code, i, tokens[k])

\* C5: in the Float state a second '.' flushes a FloatLiteral holding the
\* buffered digits, clears the buffer, and is read again in Normal state.
C5_SecondDotFlushesFloat ==
    [][(pc = "lexing" /\ state = "Float" /\ CharAt(code, index) = ".") =>
          /\ tokens' = Append(tokens,
                              Token("FloatLiteral", token, start_position))
          /\ token' = <<>>
          /\ state' = "Normal"
          /\ index' = index]_vars

\* C6: each operator of the binding-power table, written between two
\* operands, is lexed as one Operator token whose lexeme is the operator.
C6_OperatorsLexWhole ==
    \A l \in {"1", "a"}, r \in {"1", "a"}, op \in BindingOps :
        (pc = "done" /\ code = Between(l, <<" ">>, op, r)) =>
            /\ Len(tokens) = 4
            /\ tokens[2] = Token("Operator", op, 2)

\* C7: no Newline token is immediately followed by a Newline token.
C7_NoAdjacentNewlines ==
    \A k \in 1..(Len(tokens) - 1) :
        ~(tokens[k].kind = "Newline" /\ tokens[k + 1].kind = "Newline")

\* A run of two newlines after a token was lexed, and the first of them was
\* emitted.
C7_Witness ==
    /\ pc = "done"
    /\ \E i \in 2..(Len(code) - 1) :
           /\ code[i] = "\n" /\ code[i + 1] = "\n"
           /\ \E k \in DOMAIN tokens :
                  tokens[k] = Token("Newline", <<"\n">>, i - 1)

\* C8: token positions are nondecreasing in emission order.
C8_PositionsNondecreasing ==
    \A i \in DOMAIN tokens : \A j \in DOMAIN tokens :
        i < j => tokens[i].position <= tokens[j].position

\* Three tokens or more were emitted, at increasing positions, the last of
\* the three being a buffered one.
C8_Witness ==
    /\ pc = "done" /\ Len(tokens) >= 4
    /\ tokens[1].position < tokens[2].position
    /\ tokens[3].kind \in {"Identifier", "Operator", "IntegerLiteral"}

\* The characters C9 is about: none of the classes Normal accepts.
C9_Invalid(ch) ==
    ch \notin {"\n", NUL, "\"", "_", "(", ")", "[", "]", "{", "}", ":", "=",
               ","}
              \cup Whitespace \cup Digits \cup AsciiPunctuation
              \cup Alphabetic

\* C9: an invalid character read in Normal state appends exactly one Lexer
\* diagnostic at its position, emits no token, leaves the state Normal and
\* the buffer alone, and lexing goes on with the next character.
C9_InvalidCharacterSkipped ==
    [][(pc = "lexing" /\ state = "Normal" /\ C9_Invalid(CharAt(code, index)))
          => /\ Len(errors') = Len(errors) + 1
             /\ SubSeq(errors', 1, Len(errors)) = errors
             /\ errors'[Len(errors')].stage = "Lexer"
             /\ errors'[Len(errors')].position = index
             /\ tokens' = tokens
             /\ token' = token
             /\ state' = "Normal"
             /\ index' = index + 1
             /\ pc' = "lexing"]_vars

\* An invalid character was reported and a token was lexed after it.
C9_Witness ==
    /\ pc = "done"
    /\ errors # <<>>
    /\ errors[1].message.text = "Found invalid character"
    /\ Len(tokens) >= 2
    /\ tokens[1].position > errors[1].position

\* C10: diagnostics never abort the pipeline: when the parser has recorded
\* a diagnostic and returned no tree, the driver does not crash.
C10_ParserNoneDoesNotAbort ==
    (/\ results.st = "None"
     /\ \E k \in DOMAIN errors : errors[k].stage = "Parser")
        => stage # "panic"

\* The diagnostics of the parser, in the order recorded.
ParserErrors == SelectSeq(errors, LAMBDA e : e.stage = "Parser")

\* Parser::go aborted: the lexer returned its tokens, and go returned
\* neither a tree nor None.
ParserAborted == stage = "panic" /\ pc = "done" /\ results.st = "NotRun"

\* C11: on every token stream of the lexer Parser::go never aborts (it
\* reads no token past the end of the stream), and returns either a root
\* Block or None with a Parser diagnostic.
C11_ParserGoTotal ==
    /\ ~ParserAborted
    /\ stage = "parser" =>
           \/ results.st = "Some" /\ results.v.node.node = "Block"
           \/ results.st = "None" /\ ParserErrors # <<>>

\* C12: whenever the parse recorded a Parser diagnostic, Parser::go
\* returned None: no tree is returned together with a Parser diagnostic.
C12_DiagnosticMeansNone ==
    (stage = "parser" /\ ParserErrors # <<>>) => results.st = "None"

RECURSIVE Strip(_)
\* The tree of a NodeContext without positions and constant flags.
Strip(n) ==
    CASE n.node.node = "InfixOp" ->
            InfixOp(n.node.op, Strip(n.node.left), Strip(n.node.right))
      [] n.node.node = "Block" ->
            Block([k \in DOMAIN n.node.nodes |-> Strip(n.node.nodes[k])])
      [] n.node.node = "WhileExpression" ->
            WhileExpression(Strip(n.node.condition), Strip(n.node.body))
      [] n.node.node = "Declaration" ->
            Declaration(n.node.name, Strip(n.node.typ), Strip(n.node.body))
      [] OTHER -> n.node

\* The operand a literal or identifier token stands for.
OperandOf(t) ==
    CASE t.kind = "IntegerLiteral" -> Literal("IntLiteral", t.value)
      [] t.kind = "FloatLiteral" -> Literal("FloatLiteral", t.value)
      [] t.kind = "StringLiteral" -> Literal("StrLiteral", t.value)
      [] t.kind = "Identifier" -> VariableRef(t.value)

IsOperand(t) ==
    t.kind \in {"IntegerLiteral", "FloatLiteral", "StringLiteral", "Identifier"}

\* The left binding power the binding-power table gives an infix operator.
C13_LeftPower(op) ==
    CASE op = <<".", ".">> -> 1
      [] op \in {<<"=", "=">>, <<"!", "=">>, <<"<">>, <<">">>, <<"<", "=">>,
                 <<">", "=">>} -> 3
      [] op \in {<<"+">>, <<"-">>} -> 5
      [] op \in {<<"*">>, <<"/">>, <<"/", "/">>} -> 7

\* The token stream is a chain a op1 b op2 c of two infix operators.
C13_Chain(toks) ==
    /\ Len(toks) = 6
    /\ IsOperand(toks[1]) /\ IsOperand(toks[3]) /\ IsOperand(toks[5])
    /\ toks[2].kind = "Operator" /\ toks[2].value \in InfixOperators
    /\ toks[4].kind = "Operator" /\ toks[4].value \in InfixOperators
    /\ toks[6].kind = "EOF"

\* The tree of the chain: the second operator takes the middle operand when
\* its left binding power is the higher one, the first one otherwise.
C13_Tree(toks) ==
    LET a == OperandOf(toks[1])
        b == OperandOf(toks[3])
        c == OperandOf(toks[5])
        op1 == toks[2].value
        op2 == toks[4].value
    IN  IF C13_LeftPower(op2) > C13_LeftPower(op1)
        THEN InfixOp(op1, a, InfixOp(op2, b, c))
        ELSE InfixOp(op2, InfixOp(op1, a, b), c)

\* C13: a chain of infix operators over literal or variable operands parses
\* to the tree in which the operator of higher left binding power binds
\* tighter and operators of the same level associate to the left.
C13_BindingPowersHonoured ==
    (pc = "done" /\ stage # "lexer" /\ C13_Chain(tokens)) =>
        /\ results.st = "Some"
        /\ Strip(results.v) = Block(<<C13_Tree(tokens)>>)

\* The same for the chains without the operator `..`.
C13_WithoutRange ==
    (/\ pc = "done" /\ stage # "lexer" /\ C13_Chain(tokens)
     /\ tokens[2].value # <<".", ".">> /\ tokens[4].value # <<".", ".">>) =>
        /\ results.st = "Some"
        /\ Strip(results.v) = Block(<<C13_Tree(tokens)>>)

\* The token stream is `{` s `}` with s one operand, and no Newline before
\* the `}`.
C14_SingleLineBlock(toks) ==
    /\ Len(toks) = 4
    /\ toks[1].kind = "LBrace"
    /\ IsOperand(toks[2])
    /\ toks[3].kind = "RBrace"
    /\ toks[4].kind = "EOF"

\* C14: for the single-line brace block `{ s }` the parser returns
\* Block[s] (as the statement of the root block), having consumed the `}`,
\* and records no diagnostic.
C14_BraceTerminatesBlock ==
    (pc = "done" /\ stage # "lexer" /\ C14_SingleLineBlock(tokens)) =>
        /\ results.st = "Some"
        /\ Strip(results.v) = Block(<<Block(<<OperandOf(tokens[2])>>)>>)
        /\ ParserErrors = <<>>

\* The tokens of `while true x`, given the tokens of `loop x`: the source
\* is six characters longer.
C15_WhileTrue(toks) ==
    <<Token("While", <<"w", "h", "i", "l", "e">>, 0),
      Token("Identifier", <<"t", "r", "u", "e">>, 6)>>
        \o [k \in 1..(Len(toks) - 1) |->
               [toks[k + 1] EXCEPT !.position = @ + 6]]

\* C15: when `loop x` parses to a tree, `while true x` parses to a
\* structurally identical tree, the condition of the WhileExpression
\* included.
C15_LoopIsWhileTrue ==
    (/\ pc = "done" /\ results.st = "Some"
     /\ tokens[1].kind = "Loop") =>
        LET w == go(C15_WhileTrue(tokens), 0, <<>>)
        IN  /\ w.st = "Some"
            /\ Strip(w.v) = Strip(results.v)

\* The token stream is a, Operator "..", b.
C16_Range(toks) ==
    /\ Len(toks) = 4
    /\ IsOperand(toks[1])
    /\ toks[2].kind = "Operator" /\ toks[2].value = <<".", ".">>
    /\ IsOperand(toks[3])
    /\ toks[4].kind = "EOF"

\* C16: the tokens a, Operator "..", b parse to InfixOp("..", a, b); and
\* no operator of the infix table is claimed by the postfix table, which
\* expr asks first.
C16_InfixRangeParsed ==
    (pc = "done" /\ stage # "lexer" /\ C16_Range(tokens)) =>
        /\ results.st = "Some"
        /\ Strip(results.v) =
               Block(<<InfixOp(<<".", ".">>, OperandOf(tokens[1]),
                               OperandOf(tokens[3]))>>)
        /\ \A op \in InfixOperators : postfix_binding_power(op) = <<>>

\* The NodeContexts a node holds.
Children(n) ==
    CASE n.node.node = "Block" -> n.node.nodes
      [] n.node.node = "InfixOp" -> <<n.node.left, n.node.right>>
      [] n.node.node = "PrefixOp" -> <<n.node.right>>
      [] n.node.node = "PostfixOp" -> <<n.node.left>>
      [] n.node.node = "IndexOp" -> <<n.node.object, n.node.index>>
      [] n.node.node = "Call" -> n.node.args
      [] n.node.node = "Declaration" -> <<n.node.typ, n.node.body>>
      [] n.node.node = "IfExpression" ->
            <<n.node.condition, n.node.then_body, n.node.else_body>>
      [] n.node.node = "WhileExpression" -> <<n.node.condition, n.node.body>>
      [] n.node.node = "Assignment" -> <<n.node.value>>
      [] n.node.node = "FunctionExpression" ->
            n.node.arg_types \o n.node.ret_types \o <<n.node.body>>
      [] OTHER -> <<>>

\* The operand children of an operation: the operands of an operator, and
\* the body of a declaration.
C17_Operands(n) ==
    CASE n.node.node \in {"InfixOp", "PrefixOp", "PostfixOp", "IndexOp"} ->
            Children(n)
      [] n.node.node = "Declaration" -> <<n.node.body>>
      [] OTHER -> <<>>

RECURSIVE C17_Monotone(_)
\* Every operation of the tree is marked constant exactly when all of its
\* operand children are.
C17_Monotone(n) ==
    /\ C17_Operands(n) # <<>> =>
           (n.constant <=>
               \A k \in DOMAIN C17_Operands(n) : C17_Operands(n)[k].constant)
    /\ \A k \in DOMAIN Children(n) : C17_Monotone(Children(n)[k])

\* C17: on every tree the parser returns, a node is marked constant if and
\* only if all of its operand children are marked constant.
C17_ConstantMonotone ==
    results.st = "Some" => C17_Monotone(results.v)

\* IRGenerator::go aborted: the parser's tree was unwrapped, and go did
\* not return.
IRAborted ==
    stage = "panic" /\ results.st = "Some" /\ ir_generator.st = "NotRun"

\* main is past the call of IRGenerator::go.
PastIR == stage = "interpreter" \/ IRAborted

RECURSIVE Concat(_)
\* The concatenation of a sequence of sequences.
Concat(ss) == IF ss = <<>> THEN <<>> ELSE ss[1] \o Concat(Tail(ss))

\* The kinds of the instructions of a function, block after block.
KindsOf(func) ==
    Concat([b \in DOMAIN func.blocks |->
               [k \in DOMAIN func.blocks[b].instructions |->
                   func.blocks[b].instructions[k].kind]])

\* The tree of `x: = 1 + 2 * 3`.
C18_Tree ==
    Block(<<Declaration(<<"x">>, Literal("Unknown", <<>>),
                InfixOp(<<"+">>, Literal("IntLiteral", <<"1">>),
                    InfixOp(<<"*">>, Literal("IntLiteral", <<"2">>),
                            Literal("IntLiteral", <<"3">>))))>>)

\* C18: lowering the tree of `x: = 1 + 2 * 3` completes, and the top-level
\* function holds exactly ConstInt 1; ConstInt 2; ConstInt 3; Multiply;
\* Add; Pop x, followed by the trailing Push("main"); Call.
C18_DeclarationLowered ==
    (results.st = "Some" /\ Strip(results.v) = C18_Tree /\ PastIR) =>
        /\ ir_generator.st = "Returned"
        /\ KindsOf(ir_generator.env.functions[0]) =
               <<ConstInt(1), ConstInt(2), ConstInt(3), Multiply, Add,
                 Pop(<<"x">>), Push(<<"m", "a", "i", "n">>), CallKind>>

\* C19: IRGenerator::go is total on the parser's output: on every tree
\* Parser::go returns it completes without aborting and returns a function
\* table, which holds the top-level function.
C19_LoweringTotal ==
    /\ ~IRAborted
    /\ stage = "interpreter" =>
           /\ ir_generator.st = "Returned"
           /\ 0 \in DOMAIN ir_generator.env.functions

RECURSIVE NoIf(_)
\* No IfExpression occurs in the tree n.
NoIf(n) ==
    /\ n.node.node # "IfExpression"
    /\ \A k \in DOMAIN Children(n) : NoIf(Children(n)[k])

RECURSIVE SumSeq(_)
SumSeq(s) == IF s = <<>> THEN 0 ELSE s[1] + SumSeq(Tail(s))

RECURSIVE FunctionCount(_)
\* The number of FunctionExpressions in the tree n; each takes two block
\* ids for the blocks of its own function.
FunctionCount(n) ==
    (IF n.node.node = "FunctionExpression" THEN 1 ELSE 0)
        + SumSeq([k \in DOMAIN Children(n) |-> FunctionCount(Children(n)[k])])

\* The tree is one IfExpression whose bodies contain no nested if.
C20_OneIf(tree) ==
    /\ Len(tree.node.nodes) = 1
    /\ tree.node.nodes[1].node.node = "IfExpression"
    /\ NoIf(tree.node.nodes[1].node.then_body)
    /\ NoIf(tree.node.nodes[1].node.else_body)

\* The generator and the top-level function once the condition of the
\* IfExpression is lowered.
C20_AfterCondition(tree) ==
    LET id == get_next_func_id(IRGenerator)
        entry == get_next_block_id(id.g)
        first == get_next_block_id(entry.g)
    IN  node(first.g,
             Function(id.id, 0, 0, <<BasicBlock(entry.id, <<>>),
                                     BasicBlock(first.id, <<>>)>>),
             tree.node.nodes[1].node.condition)

\* C20: the lowering of one IfExpression whose bodies contain no nested
\* if takes exactly three fresh block ids and appends exactly three blocks
\* to the current function, in the order then, else, end; the block current
\* after the condition ends with BranchIf(then, else); and the then block
\* and the else block each end with Jump(end).
C20_IfLowering ==
    (stage = "interpreter" /\ C20_OneIf(results.v)) =>
        LET ifx == results.v.node.nodes[1].node
            c == C20_AfterCondition(results.v)
            n == Len(c.func.blocks)
            then_id == c.g.next_block_id
            else_id == then_id + 1
            end_id == then_id + 2
            blocks == ir_generator.env.functions[0].blocks
            last(b) == b.instructions[Len(b.instructions)].kind
        IN  /\ ir_generator.next_block_id =
                   then_id + 3 + 2 * (FunctionCount(ifx.then_body)
                                      + FunctionCount(ifx.else_body))
            /\ \A k \in 1..n : blocks[k].id < then_id
            /\ Len(blocks) = n + 3
            /\ blocks[n + 1].id = then_id
            /\ blocks[n + 2].id = else_id
            /\ blocks[n + 3].id = end_id
            /\ blocks[n].instructions =
                   Append(c.func.blocks[n].instructions,
                          Instruction(BranchIf(then_id, else_id),
                                      results.v.node.nodes[1].constant))
            /\ last(blocks[n + 1]) = Jump(end_id)
            /\ last(blocks[n + 2]) = Jump(end_id)

\* One IfExpression was lowered whose condition is itself an if and whose
\* then-body emits instructions.
C20_Witness ==
    /\ stage = "interpreter" /\ C20_OneIf(results.v)
    /\ Len(ir_generator.env.functions[0].blocks) > 5
    /\ Len(ir_generator.env.functions[0].blocks[
               Len(ir_generator.env.functions[0].blocks) - 2].instructions) > 1

\* ------------------------------------------- the interpreter on its own
\* Interpreter::new takes any Environment.  The tables below are laid out
\* as go reads them: the id of a block is its index in the block list.

Operands == {-5, -2, 0, 2, 5}

Operations ==
    {Add, Subtract, Multiply, ExactDivide, FloorDivide, Test("EQ"),
     Test("LT")}

\* A function of two blocks, the first empty, the second holding the
\* instructions of the kinds given.
TwoBlocks(id, kinds) ==
    Function(id, 0, 1,
             <<BasicBlock(0, <<>>),
               BasicBlock(1, [k \in DOMAIN kinds |->
                                  Instruction(kinds[k], FALSE)])>>)

\* Function 0 computes `a op b` and returns; or it calls function 1, which
\* computes `a op b` and returns, and then pushes b and returns.
Tables ==
    {0 :> TwoBlocks(0, <<ConstInt(a), ConstInt(b), op, Return>>) :
         a \in Operands, b \in Operands, op \in Operations}
    \cup
    {(0 :> TwoBlocks(0, <<GetFunction(1), CallKind, ConstInt(b), Return>>))
         @@ (1 :> TwoBlocks(1, <<ConstInt(a), ConstInt(b), op, Return>>)) :
         a \in Operands, b \in Operands, op \in Operations}

\* main at line 63, with one of the tables as the functions of the
\* environment.
InterpreterInit ==
    /\ code = <<>>
    /\ index = 0
    /\ state = "Normal"
    /\ token = <<>>
    /\ start_position = 0
    /\ tokens = <<>>
    /\ errors = <<>>
    /\ pc = "done"
    /\ stage = "interpreter"
    /\ results = [st |-> "NotRun"]
    /\ \E functions \in Tables :
           ir_generator = [st |-> "Returned",
                           env |-> [scopes |-> <<new_global_scope>>,
                                    functions |-> functions],
                           next_func_id |-> 2, next_block_id |-> 2]
    /\ stack = <<>>
    /\ call_stack = <<>>
    /\ current = [function |-> 0, block |-> 0, instruction |-> 0]
    /\ finished = FALSE

InterpreterNext == MainInterpreter \/ InterpreterGo

InterpreterSpec == InterpreterInit /\ [][InterpreterNext]_vars

\* ------------------------------------------------------------ claims 21-30

\* The ids of the blocks of a function.
BlockIds(func) == {func.blocks[b].id : b \in DOMAIN func.blocks}

\* The block ids that the BranchIf and Jump instructions of a function
\* name.
Targets(func) ==
    UNION {IF KindsOf(func)[k][1] = "BranchIf"
           THEN {KindsOf(func)[k][2], KindsOf(func)[k][3]}
           ELSE IF KindsOf(func)[k][1] = "Jump"
           THEN {KindsOf(func)[k][2]}
           ELSE {} : k \in DOMAIN KindsOf(func)}

\* C21: in the function table that IRGenerator::go produced, every target
\* of a BranchIf or Jump of a function is the id of a block in the block
\* list of that same function.
C21_TargetsResolve ==
    ir_generator.st = "Returned" =>
        \A f \in DOMAIN ir_generator.env.functions :
            Targets(ir_generator.env.functions[f])
                \subseteq BlockIds(ir_generator.env.functions[f])

\* A table was produced with an if nested in an if in one function and
\* a function expression lowered inside the body of that if.
C21_Witness ==
    /\ ir_generator.st = "Returned"
    /\ Cardinality(Targets(ir_generator.env.functions[0])) >= 6
    /\ \E b \in DOMAIN ir_generator.env.functions[0].blocks :
           LET blk == ir_generator.env.functions[0].blocks[b] IN
               /\ blk.id \in Targets(ir_generator.env.functions[0])
               /\ \E k \in DOMAIN blk.instructions :
                      /\ blk.instructions[k].kind[1] = "GetFunction"
                      /\ blk.instructions[k].kind[2]
                             \in DOMAIN ir_generator.env.functions

\* The interpreter is about to execute an instruction of the kind named.
Executing(name) ==
    /\ stage = "go" /\ ~finished
    /\ Fetchable(Interpreter)
    /\ Fetched(Interpreter).kind[1] = name

\* The step left `current` at instruction 0 of the block of the current
\* function whose id is `target`.
C22_Lands(target) ==
    LET blocks == ir_generator.env.functions[current.function].blocks IN
        /\ current'.function = current.function
        /\ current'.instruction = 0
        /\ current'.block < Len(blocks)
        /\ blocks[current'.block + 1].id = target

\* C22: when the interpreter executes BranchIf(then, else) on a Bool or
\* Jump(id), the instruction it executes next is instruction 0 of the
\* block of the current function whose id is the chosen target: then when
\* the Bool popped is true, else when it is false, id for a Jump.
C22_BranchLandsOnTarget ==
    [][/\ (Executing("BranchIf") /\ stage' = "go") =>
              C22_Lands(IF Top(stack).v THEN Fetched(Interpreter).kind[2]
                        ELSE Fetched(Interpreter).kind[3])
       /\ Executing("Jump") => C22_Lands(Fetched(Interpreter).kind[2])]_vars

\* The location is the first instruction of the function `func`: it is
\* instruction 0 of a block of func that holds an instruction, and every
\* block before it is empty.
FirstInstructionOf(func, loc) ==
    /\ loc.function = func.id
    /\ loc.instruction = 0
    /\ loc.block < Len(func.blocks)
    /\ func.blocks[loc.block + 1].instructions # <<>>
    /\ \A b \in 1..loc.block : func.blocks[b].instructions = <<>>

\* C23: executing Call with a Function value f on top of the operand stack
\* pops it, pushes the location of the Call on the call stack, and sets the
\* current location so that the next instruction executed is the first
\* instruction of f, for every function of the generator's table.
C23_CallEntersCallee ==
    [][(Executing("Call") /\ stack # <<>> /\ Top(stack).type = "Function") =>
           /\ stage' = "go"
           /\ stack' = Popped(stack)
           /\ call_stack' = Append(call_stack, current)
           /\ FirstInstructionOf(
                  ir_generator.env.functions[Top(stack).v.id], current')]_vars

InterpreterAborted == stage = "panic" /\ ir_generator.st = "Returned"

\* The program is one declaration of `main` whose value is a function
\* expression.
MainIsFunction ==
    /\ results.st = "Some"
    /\ Len(results.v.node.nodes) = 1
    /\ results.v.node.nodes[1].node.node = "Declaration"
    /\ results.v.node.nodes[1].node.name = <<"m", "a", "i", "n">>
    /\ results.v.node.nodes[1].node.body.node.node = "FunctionExpression"

\* The body of the function expression that `main` is declared as.
MainBody == Strip(results.v.node.nodes[1].node.body.node.body)

\* C25: for a program that declares `main` as a function whose body
\* terminates, the run of function 0 does not end before finished is set;
\* once finished is set the call stack is empty and the result of the
\* callee is on the operand stack, Integer(2) for the body `3 - 1`.
C25_MainRunsToFinished ==
    (MainIsFunction /\ ir_generator.st = "Returned") =>
        /\ ~InterpreterAborted
        /\ finished =>
               /\ call_stack = <<>>
               /\ stack # <<>>
               /\ MainBody = InfixOp(<<"-">>, Literal("IntLiteral", <<"3">>),
                                     Literal("IntLiteral", <<"1">>))
                      => Top(stack) = ValueInteger(2)

\* The program `if true 10 else 20`, which declares no `main`.
C26_Program ==
    <<"i", "f", " ", "t", "r", "u", "e", " ", "1", "0", " ", "e", "l", "s",
      "e", " ", "2", "0">>

\* C26: for the program `if true 10 else 20`, which does not declare
\* `main`, the run of function 0 does not end in a fatal error, and once
\* finished is set the value of the top-level if, Integer(10), is on the
\* operand stack.
C26_NoMainRunsToFinished ==
    (code = C26_Program /\ ir_generator.st = "Returned") =>
        /\ ~InterpreterAborted
        /\ finished => (stack # <<>> /\ Top(stack) = ValueInteger(10))

\* The floor of a / b, the quotient rounded toward negative infinity.
FloorOfQuotient(a, b) == IF b > 0 THEN a \div b ELSE (0 - a) \div (0 - b)

\* C27: FloorDivide on two Integers, left below right on the operand stack
\* and right not zero, replaces them by Integer(floor(left / right)), the
\* quotient rounded toward negative infinity, for every sign combination.
C27_FloorDivideFloors ==
    [][(/\ Executing("FloorDivide") /\ Len(stack) >= 2
        /\ Top(stack).type = "Integer"
        /\ Top(Popped(stack)).type = "Integer"
        /\ Top(stack).v # 0) =>
           stack' = Append(Popped(Popped(stack)),
                           ValueInteger(FloorOfQuotient(Top(Popped(stack)).v,
                                                        Top(stack).v)))]_vars

\* left cmp right for the comparison kind cmp.
Compare(cmp, left, right) ==
    CASE cmp = "EQ" -> left = right
      [] cmp = "NE" -> left # right
      [] cmp = "LT" -> left < right
      [] cmp = "GT" -> left > right
      [] cmp = "LE" -> left <= right
      [] cmp = "GE" -> left >= right

\* C28: Test(cmp) on two Integers, left below right on the operand stack,
\* is no fatal error for any of the six comparison kinds: it replaces them
\* by Bool(left cmp right) and advances.
C28_TestCompares ==
    [][(/\ Executing("Test") /\ Len(stack) >= 2
        /\ Top(stack).type = "Integer"
        /\ Top(Popped(stack)).type = "Integer") =>
           /\ stage' = "go"
           /\ stack' = Append(Popped(Popped(stack)),
                              ValueBool(Compare(Fetched(Interpreter).kind[2],
                                                Top(Popped(stack)).v,
                                                Top(stack).v)))
           /\ advance(Interpreter).s.current = current']_vars

\* The instruction about to be executed is an interpreter error: the fetch
\* at `current` finds no block or no instruction, or the instruction
\* fails on its operands (a type mismatch, an empty operand stack, a name
\* without a binding, a Call of a function the table does not hold).
InterpreterError ==
    /\ stage = "go" /\ ~finished
    /\ Fetchable(Interpreter) =>
           execute(Interpreter, Fetched(Interpreter).kind).st = "Panic"

\* C29: an interpreter error ends the evaluation in an error outcome that
\* is recorded as a diagnostic in the sink; it does not abort the process.
C29_ErrorIsDiagnostic ==
    [][InterpreterError =>
           (stage' # "panic" /\ Len(errors') = Len(errors) + 1)]_vars

\* C30: a scope is pushed on function entry and popped on return: in every
\* state of the running interpreter the number of scopes of the
\* environment is the depth of the call stack plus one.
C30_ScopePerCall ==
    stage = "go" => Len(ir_generator.env.scopes) = Len(call_stack) + 1

\* ------------------------------------------------------------ claims 31-36

\* C31: a binary instruction pops the right-hand operand first and the
\* left-hand operand second and computes `left op right`: Subtract on the
\* Integers a (pushed first) and b replaces them by Integer(a - b), and
\* ExactDivide by the Float a / b; the operand stack shrinks by exactly one.
C31_LeftOpRight ==
    [][/\ (/\ Executing("Subtract") /\ Len(stack) >= 2
           /\ Top(stack).type = "Integer"
           /\ Top(Popped(stack)).type = "Integer") =>
              /\ stage' = "go"
              /\ Len(stack') = Len(stack) - 1
              /\ stack' = Append(Popped(Popped(stack)),
                                 ValueInteger(Top(Popped(stack)).v
                                                  - Top(stack).v))
       /\ (/\ Executing("ExactDivide") /\ Len(stack) >= 2
           /\ Top(stack).type = "Integer"
           /\ Top(Popped(stack)).type = "Integer") =>
              /\ stage' = "go"
              /\ Len(stack') = Len(stack) - 1
              /\ stack' = Append(Popped(Popped(stack)),
                                 ValueFloat(f64(Top(Popped(stack)).v,
                                                Top(stack).v)))]_vars

\* The program `3 - 1` and, on the next line, `1 / 2` has executed its
\* Subtract and its ExactDivide: 2 and one half are on the operand stack.
C31_Witness ==
    /\ stage = "go"
    /\ KindsOf(ir_generator.env.functions[0]) =
           <<ConstInt(3), ConstInt(1), Subtract, ConstInt(1), ConstInt(2),
             ExactDivide, Push(<<"m", "a", "i", "n">>), CallKind>>
    /\ Len(stack) = 2
    /\ stack[1] = ValueInteger(2)
    /\ stack[2].type = "Float"
    /\ stack[2].v = [num |-> 1, den |-> 2]

RECURSIVE PushesOne(_)
\* Lowering the tree n emits instructions that push exactly one value: a
\* literal, a variable reference, a function expression, or an infix
\* operation on two such trees.
PushesOne(n) ==
    \/ n.node.node \in {"Literal", "VariableRef", "FunctionExpression"}
    \/ /\ n.node.node = "InfixOp"
       /\ PushesOne(n.node.left)
       /\ PushesOne(n.node.right)

\* The program is one statement of the kind named.
OneStatement(kind) ==
    /\ results.st = "Some"
    /\ Len(results.v.node.nodes) = 1
    /\ results.v.node.nodes[1].node.node = kind

\* The generator as IRGenerator::go hands it to the lowering of the tree.
C32_Generator ==
    get_next_block_id(
        get_next_block_id(get_next_func_id(IRGenerator).g).g).g

\* The kinds of the instructions that lowering the tree n emits with the
\* generator g, and the generator afterwards.
C32_Lowered(g, n) ==
    LET r == node(g, Function(0, 0, 0, <<BasicBlock(0, <<>>)>>), n) IN
        [kinds |-> KindsOf(r.func), g |-> r.g]

\* The two instructions IRGenerator::go appends to the top-level function.
C32_Trailer == <<Push(<<"m", "a", "i", "n">>), CallKind>>

\* The interpreter is about to execute the Push("main") that follows the
\* statements of the program.
C32_AtTrailer ==
    /\ Executing("Push")
    /\ current.function = 0
    /\ current.block + 1 = Len(ir_generator.env.functions[0].blocks)
    /\ current.instruction + 2 =
           Len(ir_generator.env.functions[0]
                   .blocks[current.block + 1].instructions)

\* The scope the interpreter reads and writes, now and after the step.
C32_Scope == ir_generator.env.scopes[Len(ir_generator.env.scopes)]

C32_ScopeAfter == ir_generator'.env.scopes[Len(ir_generator'.env.scopes)]

\* C32: a Declaration(name, typ, body) whose typ and body each push one
\* value lowers to lower(typ); Allocate(name); lower(body); Pop(name), and
\* an Assignment to lower(value); Pop(name).  Allocate and Pop on a bound
\* name pop the top of the operand stack into the binding of the name in
\* the current scope, so after the declaration the stack is as deep as
\* before it (empty) and the name is bound; Pop of a name that has no
\* binding in the current scope aborts.
C32_DeclarationAndAssignment ==
    [][/\ (/\ OneStatement("Declaration") /\ ir_generator.st = "Returned"
           /\ PushesOne(results.v.node.nodes[1].node.typ)
           /\ PushesOne(results.v.node.nodes[1].node.body)) =>
              LET d == results.v.node.nodes[1].node
                  t == C32_Lowered(C32_Generator, d.typ)
                  b == C32_Lowered(t.g, d.body)
              IN  /\ KindsOf(ir_generator.env.functions[0]) =
                         t.kinds \o <<Allocate(d.name)>> \o b.kinds
                             \o <<Pop(d.name)>> \o C32_Trailer
                  /\ C32_AtTrailer =>
                         (stack = <<>> /\ d.name \in DOMAIN C32_Scope)
       /\ (OneStatement("Assignment") /\ ir_generator.st = "Returned") =>
              LET a == results.v.node.nodes[1].node IN
                  KindsOf(ir_generator.env.functions[0]) =
                      C32_Lowered(C32_Generator, a.value).kinds
                          \o <<Pop(a.name)>> \o C32_Trailer
       /\ (Executing("Allocate") /\ stack # <<>>) =>
              /\ stage' = "go"
              /\ stack' = Popped(stack)
              /\ C32_ScopeAfter[Fetched(Interpreter).kind[2]] = Top(stack)
       /\ (/\ Executing("Pop") /\ stack # <<>>
           /\ Fetched(Interpreter).kind[2] \in DOMAIN C32_Scope) =>
              /\ stage' = "go"
              /\ stack' = Popped(stack)
              /\ C32_ScopeAfter[Fetched(Interpreter).kind[2]] = Top(stack)
       /\ (/\ Executing("Pop")
           /\ Fetched(Interpreter).kind[2] \notin DOMAIN C32_Scope) =>
              stage' = "panic"]_vars

\* The declaration `x: i32 = 1 + 2 * 3` has been executed: the operand
\* stack is empty again and x is bound to Integer(7).
C32_Witness ==
    /\ OneStatement("Declaration")
    /\ C32_AtTrailer
    /\ stack = <<>>
    /\ <<"x">> \in DOMAIN C32_Scope
    /\ C32_Scope[<<"x">>] = ValueInteger(7)

\* C33: Lexer::go terminates on every input of the bounded sets: an
\* iteration in the Normal state that does not end the loop advances the
\* index; an iteration that leaves the index where it is starts in a state
\* other than Normal and ends in Normal, so no position is processed more
\* than twice; the index never passes the length of the input; and the
\* loop is eventually left.
C33_LexerTerminates ==
    /\ [][(pc = "lexing" /\ pc' = "lexing") =>
              /\ index' <= Len(code)
              /\ index' \in {index, index + 1}
              /\ state = "Normal" => index' = index + 1
              /\ index' = index => (state # "Normal" /\ state' = "Normal")]_vars
    /\ <>(pc # "lexing")

\* An Integer literal was ended by a character that is processed again:
\* the lexer is back in Normal at the position of that character, and the
\* literal ends right before it.
C33_Witness ==
    /\ pc = "lexing" /\ state = "Normal"
    /\ index < Len(code)
    /\ tokens # <<>>
    /\ tokens[Len(tokens)].kind = "IntegerLiteral"
    /\ tokens[Len(tokens)].position + Len(tokens[Len(tokens)].value) = index
    /\ ~is_digit(CharAt(code, index))

\* The functions of the table that IRGenerator::go produced.
Table == ir_generator.env.functions

\* The id of the block at index k (from 0) of the function f of the table.
IdAt(f, k) == Table[f].blocks[k + 1].id

\* The indices (from 0) of the blocks of the function f.
Indices(f) == 0..(Len(Table[f].blocks) - 1)

\* The blocks of the function f are in the order of their ids.
Increasing(f) ==
    \A k \in Indices(f) : \A m \in Indices(f) :
        k < m => IdAt(f, k) < IdAt(f, m)

\* A block of a function other than f has an id below id.
TakenElsewhere(f, id) ==
    \E h \in DOMAIN Table : h # f /\ \E k \in Indices(h) : IdAt(h, k) < id

\* C34, as stated: in every function of the table other than function 0
\* the id of each block is strictly greater than its index; in function 0
\* the id of a block equals its index only if the blocks before it hold
\* exactly the ids below it (no id went to a function expression, none to
\* a block pushed later).
C34_IdsAboveIndices ==
    ir_generator.st = "Returned" =>
        /\ \A f \in DOMAIN Table \ {0} :
               \A k \in Indices(f) : IdAt(f, k) > k
        /\ \A k \in Indices(0) :
               IdAt(0, k) = k =>
                   {IdAt(0, m) : m \in 0..(k - 1)} = 0..(k - 1)

\* C34, amended: the ids of the blocks of the table are distinct, within
\* a function and across functions; the first two blocks of function 0
\* have the ids 0 and 1, and those of every other function have ids of 2
\* and more; in a function whose blocks are in the order of their ids the
\* id of each block is at least its index, and equals it exactly when the
\* function is function 0 and no block of another function has a smaller
\* id.
C34_IdsAndIndices ==
    ir_generator.st = "Returned" =>
        /\ \A f \in DOMAIN Table : \A h \in DOMAIN Table :
               \A k \in Indices(f) : \A m \in Indices(h) :
                   IdAt(f, k) = IdAt(h, m) => (f = h /\ k = m)
        /\ IdAt(0, 0) = 0 /\ IdAt(0, 1) = 1
        /\ \A f \in DOMAIN Table \ {0} : IdAt(f, 0) >= 2 /\ IdAt(f, 1) >= 2
        /\ \A f \in DOMAIN Table :
               Increasing(f) =>
                   \A k \in Indices(f) :
                       /\ IdAt(f, k) >= k
                       /\ IdAt(f, k) = k <=>
                              (f = 0 /\ ~TakenElsewhere(0, IdAt(0, k)))

\* A table with a function other than 0 that holds a block whose id is
\* below its index: an if was lowered inside the body of an if of a
\* function expression.
C34_Witness ==
    /\ ir_generator.st = "Returned"
    /\ \E f \in DOMAIN Table \ {0} :
           /\ ~Increasing(f)
           /\ \E k \in Indices(f) : IdAt(f, k) < k

\* C35: in every function of the table that IRGenerator::go produced the
\* block at index 0 holds no instruction and every other block holds at
\* least one, so the block the interpreter stands in, whenever it is a
\* block of the current function, is not empty: advance never lands on an
\* empty block.
C35_OnlyFirstBlockEmpty ==
    ir_generator.st = "Returned" =>
        /\ \A f \in DOMAIN Table :
               /\ Table[f].blocks[1].instructions = <<>>
               /\ \A k \in 2..Len(Table[f].blocks) :
                      Table[f].blocks[k].instructions # <<>>
        /\ (/\ stage = "go" /\ ~finished
            /\ current.function \in DOMAIN Table
            /\ current.block < Len(Table[current.function].blocks)) =>
               Table[current.function]
                   .blocks[current.block + 1].instructions # <<>>

\* The interpreter has branched to a later block of a table that holds a
\* function expression besides the top-level function.
C35_Witness ==
    /\ stage = "go" /\ ~finished
    /\ Cardinality(DOMAIN Table) >= 2
    /\ current.block >= 2
    /\ current.block < Len(Table[current.function].blocks)

\* The generator as IRGenerator::go left it.
C36_Generator ==
    [env |-> ir_generator.env, next_func_id |-> ir_generator.next_func_id,
     next_block_id |-> ir_generator.next_block_id]

\* C36: lowering a WhileExpression emits no instruction and allocates no
\* block: lowering any statement of the program that is a WhileExpression
\* returns the generator (its counters and its table) and the function it
\* was given as they were; and the top-level function of a program that
\* is one WhileExpression holds two blocks, the ids 0 and 1 (the counter
\* stands at 2), and no instruction but the Push("main"); Call that go
\* appends, so that the interpreter executes neither the condition nor
\* the body.
C36_WhileEmitsNothing ==
    ir_generator.st = "Returned" =>
        /\ \A k \in DOMAIN results.v.node.nodes :
               results.v.node.nodes[k].node.node = "WhileExpression" =>
                   \A f \in DOMAIN Table :
                       node(C36_Generator, Table[f], results.v.node.nodes[k])
                           = Done(C36_Generator, Table[f])
        /\ OneStatement("WhileExpression") =>
               /\ DOMAIN Table = {0}
               /\ Len(Table[0].blocks) = 2
               /\ KindsOf(Table[0]) = C32_Trailer
               /\ ir_generator.next_block_id = 2
               /\ (stage = "go" /\ Fetchable(Interpreter)) =>
                      Fetched(Interpreter).kind \in
                          {C32_Trailer[1], C32_Trailer[2]}

\* The interpreter runs the program `loop 1 + a`, a WhileExpression whose
\* condition and body would each emit instructions.
C36_Witness ==
    /\ OneStatement("WhileExpression")
    /\ stage = "go"
    /\ results.v.node.nodes[1].node.condition.node.node = "Literal"
    /\ results.v.node.nodes[1].node.body.node.node = "InfixOp"

====
